---- MODULE Spec2Model ----
(***************************************************************************)
(* Model of ts-server: the startup script (src/main.ts: discovery of       *)
(* services and routers, hook injection, sorting of the routers and        *)
(* installation of their routes), the validation middleware of a route     *)
(* (src/main.ts), a request on its way through the mounted layers          *)
(* (src/main.ts) and the session manager (src/@steroids/session.ts:        *)
(* handler table, claims pass-through, session middleware).                *)
(***************************************************************************)
EXTENDS Integers, Sequences, FiniteSets, Bags, TLC

VARIABLES
  \* ---- startup script (main.ts) ----
  candidates,   \* the exported values of the scanned files, in scan order
  pc,           \* position of the top-level script
  cursor,       \* index of the candidate installModule looks at next
  services,     \* the services object: entries in property order
  routers,      \* the routers object: entries in property order
  heap,         \* the objects of the configuration graph, by address
  config,       \* address of the merged configuration object
  pass,         \* which injectServices call of the script is running
  injIdx,       \* index of the property the running injectServices looks at
  trace,        \* the hook calls made so far, in order
  \* ---- session manager (session.ts) ----
  signed,       \* ServerSessionManagerInternal.__signed
  handlers,     \* ServerSessionManager.__handlers, by property key
  log,          \* what was written to the logger: entry -> how many times
  lastOp,       \* the last public call on the manager and its outcome
  calls,        \* number of public calls made on the manager
  reqs,         \* the requests given to the middleware, by request number
  \* ---- validation middleware of one route (main.ts) ----
  route,        \* the route definition the middleware was created for
  request,      \* the request given to the validation middleware
  res,          \* the responses sent on the request, in order
  nextCalls,    \* how many times the validation middleware called next
  evaluated,    \* indices of the rules the middleware evaluated, in order
  applied,      \* key paths of the body predicates applied, in order
  threw,        \* the validation middleware ended in an exception
  vpc,          \* how far the request has come in the route's chain
  \* ---- installation of the routes (main.ts) ----
  app,          \* the layers mounted on the express application, in order
  sorted,       \* the routers array after _.sortBy
  rIdx,         \* index of the router the installation loop is at
  routeIdx,     \* index of the route of that router the loop is at
  console,      \* what the script and the handlers wrote to the console
  \* ---- a request on its way through the application (main.ts) ----
  exchange      \* the request, the layer and handler it is at, its responses

vars == <<candidates, pc, cursor, services, routers, heap, config, pass,
          injIdx, trace, signed, handlers, log, lastOp, calls, reqs,
          route, request, res, nextCalls, evaluated, applied, threw, vpc,
          app, sorted, rIdx, routeIdx, console, exchange>>

startupVars == <<candidates, pc, cursor, services, routers, heap, config,
                 pass, injIdx, trace>>

sessionVars == <<signed, handlers, log, lastOp, calls, reqs>>

validationVars == <<route, request, res, nextCalls, evaluated, applied,
                    threw, vpc>>

installVars == <<app, sorted, rIdx, routeIdx, console>>

serveVars == <<exchange>>

\* What discovery and injection leave alone, and what the session manager
\* does.
outsideStartup == <<sessionVars, validationVars, installVars, serveVars>>

outsideSession == <<startupVars, validationVars, installVars, serveVars>>

(***************************************************************************)
(* Bounds of the model.                                                    *)
(***************************************************************************)
MaxCandidates == 2
MaxCalls == 2
MaxRequests == 2

(***************************************************************************)
(* Configuration objects.  An object of the configuration graph has the    *)
(* two documented keys and at most one object-valued key (an expansion of  *)
(* ServerConfig); child = 0 is "no such key".  Addresses are indices into  *)
(* heap.                                                                   *)
(***************************************************************************)
NoAddr == 0

DefaultPort == 5000

\* Some other port, as config.json may set it.
FilePort == DefaultPort + 1

CONFIG_DEFAULT == [port |-> DefaultPort, verboseLogs |-> TRUE, child |-> NoAddr]

\* What config.json may hold: "absent" stands for a key the file does not
\* have (or for the whole file when it cannot be read: config stays {}).
ConfigFiles ==
  [port : {"absent", "set"}, verboseLogs : {"absent", "false"},
   extra : {"absent", "object"}]

\* _.merge(CONFIG_DEFAULT, config): the keys of the file override those of
\* CONFIG_DEFAULT, which is the object returned; a nested object of the file
\* is merged into a fresh object under the same key.
merge(file) ==
  LET root == [port |-> IF file.port = "set" THEN FilePort ELSE CONFIG_DEFAULT.port,
               verboseLogs |-> IF file.verboseLogs = "false" THEN FALSE
                               ELSE CONFIG_DEFAULT.verboseLogs,
               child |-> IF file.extra = "object" THEN 2 ELSE NoAddr]
      nested == [port |-> FilePort, verboseLogs |-> FALSE, child |-> NoAddr]
  IN  IF file.extra = "object" THEN <<root, nested>> ELSE <<root>>

\* The value of the object graph at address a: what a reader of it sees.
RECURSIVE valueAt(_, _)
valueAt(h, a) ==
  IF a = NoAddr THEN <<>>
  ELSE <<h[a].port, h[a].verboseLogs, valueAt(h, h[a].child)>>

\* The addresses reachable from a.
RECURSIVE reach(_, _)
reach(h, a) ==
  IF a = NoAddr THEN {} ELSE {a} \cup reach(h, h[a].child)

\* A copy that shares the nested objects with the original.
cloneShallow(h, a) ==
  [heap |-> Append(h, h[a]), addr |-> Len(h) + 1]

\* _.cloneDeep(value): a copy of the object at a and, recursively, of every
\* object it holds; returns the grown heap and the address of the copy.
RECURSIVE cloneDeep(_, _)
cloneDeep(h, a) ==
  IF h[a].child = NoAddr
  THEN [heap |-> Append(h, h[a]), addr |-> Len(h) + 1]
  ELSE LET sub == cloneDeep(h, h[a].child)
       IN  [heap |-> Append(sub.heap, [h[a] EXCEPT !.child = sub.addr]),
            addr |-> Len(sub.heap) + 1]

\* What the body of an onConfig hook may do to the object it is given.
Mutations == {"none", "port", "verboseLogs", "nested"}

mutate(h, a, m) ==
  CASE m = "port"        -> [h EXCEPT ![a].port = 0]
    [] m = "verboseLogs" -> [h EXCEPT ![a].verboseLogs = ~ h[a].verboseLogs]
    [] m = "nested"      -> IF h[a].child = NoAddr THEN h
                            ELSE [h EXCEPT ![h[a].child].port = 0]
    [] OTHER             -> h

(***************************************************************************)
(* Candidates: the values a scanned file exports.                          *)
(***************************************************************************)
Names == {"a", "b"}

\* shape: what installModule finds out about the export.
\*   "notFunction"  typeof module !== 'function'
\*   "throws"       new module() throws
\*   "noMetadata"   the instance has no __metadata
\*   "service" / "router"   __metadata.type
Components ==
  [shape : {"service", "router"}, name : Names,
   onInjection : BOOLEAN, onConfig : BOOLEAN]

Others ==
  [shape : {"notFunction", "throws", "noMetadata"}, name : {"a"},
   onInjection : {FALSE}, onConfig : {FALSE}]

Catalog == Components \cup Others

RECURSIVE SeqsUpTo(_, _)
SeqsUpTo(S, n) ==
  IF n = 0 THEN {<<>>}
  ELSE LET shorter == SeqsUpTo(S, n - 1)
       IN  shorter \cup {Append(s, x) : s \in {t \in shorter : Len(t) = n - 1}, x \in S}

(***************************************************************************)
(* The services and routers objects.  A JavaScript object keeps its        *)
(* string keys in insertion order, and assigning to an existing key keeps  *)
(* the key's place; an entry is <<name, instance>>, the instance being the *)
(* index of the candidate it was constructed from.                         *)
(***************************************************************************)
hasKey(obj, name) == \E i \in 1..Len(obj) : obj[i].name = name

keysOf(obj) == {obj[i].name : i \in 1..Len(obj)}

\* An assignment that leaves a key alone when the object has it.
putIfAbsent(obj, name, inst) ==
  IF hasKey(obj, name) THEN obj
  ELSE Append(obj, [name |-> name, inst |-> inst])

put(obj, name, inst) ==
  IF hasKey(obj, name)
  THEN [i \in 1..Len(obj) |->
          IF obj[i].name = name THEN [name |-> name, inst |-> inst] ELSE obj[i]]
  ELSE Append(obj, [name |-> name, inst |-> inst])

\* The object an entry of services or routers refers to.
moduleOf(entry) == candidates[entry.inst]

kindOf(entry) == moduleOf(entry).shape

(***************************************************************************)
(* State after main.ts lines 23-46: the configuration is merged, and the   *)
(* services and routers objects are empty.  The session manager is not     *)
(* part of the startup script: its state stays as constructed.             *)
(***************************************************************************)
NoOp == [op |-> "none", event |-> "none", handler |-> "none", id |-> "none",
         key |-> "none", value |-> "none", called |-> "none", args |-> <<>>,
         result |-> "none", threw |-> FALSE, logged |-> 0]

SessionIdle ==
  /\ signed = FALSE
  /\ handlers = [k \in {"created", "claims:get", "claims:set",
                        "claimsGet", "claimsSet"} |-> "none"]
  /\ log = EmptyBag
  /\ lastOp = NoOp
  /\ calls = 0
  /\ reqs = <<>>

\* No route with a validation middleware is part of the run.
NoRequest == [headers |-> <<>>, query |-> <<>>, body |-> <<>>]

ValidationIdle ==
  /\ route = [validate |-> <<>>]
  /\ request = NoRequest
  /\ res = <<>>
  /\ nextCalls = 0
  /\ evaluated = <<>>
  /\ applied = <<>>
  /\ threw = FALSE
  /\ vpc = "off"

\* No request has reached the application.
NoExchange ==
  [state |-> "idle", method |-> "", path |-> "", layer |-> 0, step |-> 0,
   error |-> "", res |-> <<>>, ran |-> <<>>]

\* Nothing is mounted on the application yet (line 44).
InstallIdle ==
  /\ app = <<>>
  /\ sorted = <<>>
  /\ rIdx = 1
  /\ routeIdx = 1
  /\ console = <<>>
  /\ exchange = NoExchange

StartupInit ==
  /\ candidates \in SeqsUpTo(Catalog, MaxCandidates)
  /\ \E file \in ConfigFiles : heap = merge(file)
  /\ config = 1
  /\ pc = "install"
  /\ cursor = 1
  /\ services = <<>>
  /\ routers = <<>>
  /\ pass = 1
  /\ injIdx = 1
  /\ trace = <<>>
  /\ InstallIdle
  /\ SessionIdle
  /\ ValidationIdle

(***************************************************************************)
(* installModule, one export per step (main.ts lines 54-84).               *)
(***************************************************************************)
\* An installModule that leaves the loop at an instance without
\* __metadata.
installModuleReturns ==
  /\ pc = "install"
  /\ cursor <= Len(candidates)
  /\ LET module == candidates[cursor] IN
       /\ CASE module.shape = "service" ->
                /\ services' = put(services, module.name, cursor)
                /\ UNCHANGED routers
           [] module.shape = "router" ->
                /\ routers' = put(routers, module.name, cursor)
                /\ UNCHANGED services
           [] OTHER -> UNCHANGED <<services, routers>>
       /\ cursor' = IF module.shape = "noMetadata" THEN Len(candidates) + 1
                    ELSE cursor + 1
  /\ UNCHANGED <<candidates, pc, heap, config, pass, injIdx, trace>>
  /\ UNCHANGED outsideStartup

\* An installModule without the try and catch: the script ends at a
\* constructor that throws.
installModuleUncaught ==
  /\ pc = "install"
  /\ cursor <= Len(candidates)
  /\ LET module == candidates[cursor] IN
       /\ CASE module.shape = "service" ->
                /\ services' = put(services, module.name, cursor)
                /\ UNCHANGED routers
           [] module.shape = "router" ->
                /\ routers' = put(routers, module.name, cursor)
                /\ UNCHANGED services
           [] OTHER -> UNCHANGED <<services, routers>>
       /\ IF module.shape = "throws"
          THEN pc' = "crashed" /\ UNCHANGED cursor
          ELSE cursor' = cursor + 1 /\ UNCHANGED pc
  /\ UNCHANGED <<candidates, heap, config, pass, injIdx, trace>>
  /\ UNCHANGED outsideStartup

installModule ==
  /\ pc = "install"
  /\ cursor <= Len(candidates)
  /\ LET module == candidates[cursor] IN
       CASE module.shape = "service" ->
              /\ services' = put(services, module.name, cursor)
              /\ UNCHANGED routers
         [] module.shape = "router" ->
              /\ routers' = put(routers, module.name, cursor)
              /\ UNCHANGED services
         [] OTHER ->
              \* not a function, a constructor that throws (caught), or an
              \* instance without __metadata: continue
              UNCHANGED <<services, routers>>
  /\ cursor' = cursor + 1
  /\ UNCHANGED <<candidates, pc, heap, config, pass, injIdx, trace>>
  /\ UNCHANGED outsideStartup

\* A scan that goes on to injection after its first export.
scanDoneEarly(i) == i > 1

\* The loop over the scanned files has run to its end (lines 226-230).
scanDone(i) == i > Len(candidates)

\* The two calls of injectServices, in script order (lines 233-234).
injectionOrder == <<"services", "routers">>

modulesOf(p) == IF injectionOrder[p] = "services" THEN services ELSE routers

beginInjection ==
  /\ pc = "install"
  /\ scanDone(cursor)
  /\ pc' = "inject"
  /\ pass' = 1
  /\ injIdx' = 1
  /\ UNCHANGED <<candidates, cursor, services, routers, heap, config, trace>>
  /\ UNCHANGED outsideStartup

\* The branch injectServices takes for a module (lines 121-134).
hookOf(module) ==
  IF module.onInjection THEN "onInjection"
  ELSE IF module.onConfig THEN "onConfig"
  ELSE "none"

hookCall(hook, entry, cfg, got) ==
  [hook |-> hook, kind |-> kindOf(entry), name |-> entry.name,
   inst |-> entry.inst, pass |-> pass, pos |-> injIdx,
   scanned |-> cursor - 1, seen |-> keysOf(services),
   cfg |-> cfg, got |-> got, threw |-> FALSE]

\* injectServices, one property of modules per step (lines 117-136).  The
\* body of an onConfig hook may change the object it is given.
injectServices ==
  /\ pc = "inject"
  /\ injIdx <= Len(modulesOf(pass))
  /\ LET entry == modulesOf(pass)[injIdx]
         hook == hookOf(moduleOf(entry))
     IN  CASE hook = "onInjection" ->
                /\ trace' = Append(trace, hookCall("onInjection", entry, NoAddr, <<>>))
                /\ UNCHANGED heap
           [] hook = "onConfig" ->
                LET copy == cloneDeep(heap, config) IN
                /\ \E m \in Mutations : heap' = mutate(copy.heap, copy.addr, m)
                /\ trace' = Append(trace, hookCall("onConfig", entry, copy.addr,
                                                   valueAt(copy.heap, copy.addr)))
           [] OTHER -> UNCHANGED <<trace, heap>>
  /\ injIdx' = injIdx + 1
  /\ UNCHANGED <<candidates, pc, cursor, services, routers, config, pass>>
  /\ UNCHANGED outsideStartup

\* The end of one injectServices call: the next one, or the rest of the
\* script.
endInjection ==
  /\ pc = "inject"
  /\ injIdx > Len(modulesOf(pass))
  /\ IF pass < Len(injectionOrder)
     THEN /\ pass' = pass + 1
          /\ injIdx' = 1
          /\ UNCHANGED pc
     ELSE /\ pc' = "injected"
          /\ UNCHANGED <<pass, injIdx>>
  /\ UNCHANGED <<candidates, cursor, services, routers, heap, config, trace>>
  /\ UNCHANGED outsideStartup

StartupNext == installModule \/ beginInjection \/ injectServices \/ endInjection

Spec == StartupInit /\ [][StartupNext]_vars

(***************************************************************************)
(* Claims about startup.                                                   *)
(***************************************************************************)
Calls == 1..Len(trace)

registered == {services[i] : i \in 1..Len(services)} \cup
              {routers[i] : i \in 1..Len(routers)}

\* C1 as stated: in every startup trace no onConfig call precedes an
\* onInjection call (all injection-hook calls come before the first
\* config-hook call).
C1_NoConfigBeforeInjection ==
  \A i, j \in Calls :
    i < j => ~ (trace[i].hook = "onConfig" /\ trace[j].hook = "onInjection")

\* C2: once injection is over, every registered component with the config
\* hook has received exactly one onConfig call, whether or not it also has
\* the injection hook.
C2_EveryConfigHookCalledOnce ==
  pc = "injected" =>
    \A e \in registered :
      moduleOf(e).onConfig =>
        Cardinality({i \in Calls : trace[i].hook = "onConfig"
                                   /\ trace[i].inst = e.inst}) = 1

\* C3: every onInjection call is made after the scan has processed every
\* candidate, and the service map it is given holds every service of the
\* scan, those after the receiving component included.
C3_InjectionAfterDiscovery ==
  \A i \in Calls :
    trace[i].hook = "onInjection" =>
      /\ trace[i].scanned = Len(candidates)
      /\ \A k \in 1..Len(candidates) :
           candidates[k].shape = "service" => candidates[k].name \in trace[i].seen
      /\ trace[i].seen = keysOf(services)

\* A component received the service map, and a service of another name was
\* discovered after it.
C3_Witness ==
  \E i \in Calls :
    /\ trace[i].hook = "onInjection"
    /\ \E k \in 1..Len(candidates) :
         /\ k > trace[i].inst
         /\ candidates[k].shape = "service"
         /\ candidates[k].name # trace[i].name

\* C4: what an onConfig call receives is a copy that shares no object with
\* the merged configuration or with what another call received, so the
\* merged configuration still has the value every call received, whatever
\* the receivers did to their copies.
C4_DeepCopyIsolation ==
  \A i \in Calls :
    trace[i].hook = "onConfig" =>
      /\ trace[i].got = valueAt(heap, config)
      /\ reach(heap, trace[i].cfg) \cap reach(heap, config) = {}
      /\ \A j \in Calls :
           (j # i /\ trace[j].hook = "onConfig") =>
             reach(heap, trace[i].cfg) \cap reach(heap, trace[j].cfg) = {}

\* A component changed the nested object of its copy, and another component
\* received its copy after that.
C4_Witness ==
  \E i, j \in Calls :
    /\ i < j
    /\ trace[i].hook = "onConfig" /\ trace[j].hook = "onConfig"
    /\ heap[config].child # NoAddr
    /\ valueAt(heap, trace[i].cfg) # trace[i].got
    /\ heap[heap[trace[i].cfg].child].port # heap[heap[config].child].port

(***************************************************************************)
(* ServerSessionManager (session.ts lines 3-74).                           *)
(***************************************************************************)
NoHandler == "none"

Handlers == {"h1", "h2"}

\* The event names on() accepts (line 17).
EventNames == {"created", "claims:get", "claims:set"}

\* The names a caller may pass to on().
Events == EventNames \cup {"bogus"}

SessionIds == {"s1", "s2"}

ClaimKeys == {"k1", "k2"}

ClaimValues == {"v1"}

Undefined == <<NoHandler, <<>>>>

\* What a handler returns: a value that tells which handler made it and
\* from which arguments.
resultOf(h, args) == <<h, args>>

logEntry(level, msg, about) == [level |-> level, msg |-> msg, about |-> about]

\* log.error(...), log.warn(...): one more entry written.
written(entry) == log (+) SetToBag({entry})

\* on() that replaces a handler already assigned.
onOverwrite(event, handler) ==
  /\ calls < MaxCalls
  /\ calls' = calls + 1
  /\ IF event \notin EventNames
     THEN /\ log' = written(logEntry("error", "does not exist", event))
          /\ UNCHANGED handlers
          /\ lastOp' = [NoOp EXCEPT !.op = "on", !.event = event,
                                    !.handler = handler, !.logged = 1]
     ELSE /\ handlers' = [handlers EXCEPT ![event] = handler]
          /\ UNCHANGED log
          /\ lastOp' = [NoOp EXCEPT !.op = "on", !.event = event,
                                    !.handler = handler]
  /\ UNCHANGED <<signed, reqs>>
  /\ UNCHANGED outsideSession

\* on(event, handler), lines 15-35.
on(event, handler) ==
  /\ calls < MaxCalls
  /\ calls' = calls + 1
  /\ IF event \notin EventNames
     THEN /\ log' = written(logEntry("error", "does not exist", event))
          /\ UNCHANGED handlers
          /\ lastOp' = [NoOp EXCEPT !.op = "on", !.event = event,
                                    !.handler = handler, !.logged = 1]
     ELSE IF handlers[event] # NoHandler
     THEN /\ log' = written(logEntry("error", "already assigned", event))
          /\ UNCHANGED handlers
          /\ lastOp' = [NoOp EXCEPT !.op = "on", !.event = event,
                                    !.handler = handler, !.logged = 1]
     ELSE /\ handlers' = [handlers EXCEPT ![event] = handler]
          /\ UNCHANGED log
          /\ lastOp' = [NoOp EXCEPT !.op = "on", !.event = event,
                                    !.handler = handler]
  /\ UNCHANGED <<signed, reqs>>
  /\ UNCHANGED outsideSession

\* The outcome of calling the value of a property of __handlers: a
\* property that holds no function cannot be called (TypeError).
invoke(h, args) ==
  IF h = NoHandler
  THEN [called |-> NoHandler, args |-> <<>>, result |-> Undefined, threw |-> TRUE]
  ELSE [called |-> h, args |-> args, result |-> resultOf(h, args), threw |-> FALSE]

\* setClaim(id, key, value), lines 43-54.
setClaim(id, key, value) ==
  /\ calls < MaxCalls
  /\ calls' = calls + 1
  /\ LET op == [NoOp EXCEPT !.op = "setClaim", !.id = id, !.key = key,
                            !.value = value, !.result = Undefined]
     IN  IF handlers["claimsSet"] = NoHandler
         THEN /\ log' = written(logEntry("warn", "no handler", "claims:set"))
              /\ lastOp' = [op EXCEPT !.logged = 1]
         ELSE LET out == invoke(handlers["claimsSet"], <<id, key, value>>)
              IN  /\ UNCHANGED log
                  /\ lastOp' = [op EXCEPT !.called = out.called, !.args = out.args,
                                          !.result = out.result, !.threw = out.threw]
  /\ UNCHANGED <<signed, handlers, reqs>>
  /\ UNCHANGED outsideSession

\* getClaim without the test for a handler.
getClaimUnguarded(id, key) ==
  /\ calls < MaxCalls
  /\ calls' = calls + 1
  /\ LET op == [NoOp EXCEPT !.op = "getClaim", !.id = id, !.key = key,
                            !.result = Undefined]
         out == invoke(handlers["claimsGet"], <<id, key>>)
     IN  /\ UNCHANGED log
         /\ lastOp' = [op EXCEPT !.called = out.called, !.args = out.args,
                                 !.result = out.result, !.threw = out.threw]
  /\ UNCHANGED <<signed, handlers, reqs>>
  /\ UNCHANGED outsideSession

\* getClaim(id, key), lines 61-72: the test reads claimsSet, the call
\* claimsGet.
getClaim(id, key) ==
  /\ calls < MaxCalls
  /\ calls' = calls + 1
  /\ LET op == [NoOp EXCEPT !.op = "getClaim", !.id = id, !.key = key,
                            !.result = Undefined]
     IN  IF handlers["claimsSet"] = NoHandler
         THEN /\ log' = written(logEntry("warn", "no handler", "claims:get"))
              /\ lastOp' = [op EXCEPT !.logged = 1]
         ELSE LET out == invoke(handlers["claimsGet"], <<id, key>>)
              IN  /\ UNCHANGED log
                  /\ lastOp' = [op EXCEPT !.called = out.called, !.args = out.args,
                                          !.result = out.result, !.threw = out.threw]
  /\ UNCHANGED <<signed, handlers, reqs>>
  /\ UNCHANGED outsideSession

\* The startup script has not run: nothing is scanned or registered.
StartupIdle ==
  /\ candidates = <<>>
  /\ heap = merge([port |-> "absent", verboseLogs |-> "absent", extra |-> "absent"])
  /\ config = 1
  /\ pc = "idle"
  /\ cursor = 1
  /\ services = <<>>
  /\ routers = <<>>
  /\ pass = 1
  /\ injIdx = 1
  /\ trace = <<>>
  /\ InstallIdle

\* A manager as constructed (line 5: no handler assigned).
ManagerInit ==
  /\ StartupIdle
  /\ SessionIdle
  /\ ValidationIdle

ManagerNext ==
  \/ \E event \in Events, handler \in Handlers : on(event, handler)
  \/ \E id \in SessionIds, key \in ClaimKeys, value \in ClaimValues :
       setClaim(id, key, value)
  \/ \E id \in SessionIds, key \in ClaimKeys : getClaim(id, key)

ManagerSpec == ManagerInit /\ [][ManagerNext]_vars

(***************************************************************************)
(* Claims about the handler table and the claims pass-through.             *)
(***************************************************************************)
\* C5: with a handler h assigned to 'claims:set', setClaim(id, key, value)
\* calls h with exactly (id, key, value) and returns its result; with a
\* handler g assigned to 'claims:get', getClaim(id, key) calls g with
\* exactly (id, key) and returns its result.
C5_ClaimsPassThrough ==
  /\ (lastOp.op = "setClaim" /\ handlers["claims:set"] # NoHandler) =>
       /\ lastOp.called = handlers["claims:set"]
       /\ lastOp.args = <<lastOp.id, lastOp.key, lastOp.value>>
       /\ lastOp.result = resultOf(handlers["claims:set"], lastOp.args)
  /\ (lastOp.op = "getClaim" /\ handlers["claims:get"] # NoHandler) =>
       /\ lastOp.called = handlers["claims:get"]
       /\ lastOp.args = <<lastOp.id, lastOp.key>>
       /\ lastOp.result = resultOf(handlers["claims:get"], lastOp.args)

\* C6: getClaim with no handler assigned to 'claims:get', and setClaim with
\* no handler assigned to 'claims:set', log one warning, call no handler,
\* return nothing and do not throw, whatever else is assigned.
C6_NoHandlerWarns ==
  \A name \in {"claims:get", "claims:set"} :
    (/\ lastOp.op = (IF name = "claims:get" THEN "getClaim" ELSE "setClaim")
     /\ handlers[name] = NoHandler) =>
      /\ lastOp.logged = 1
      /\ CopiesIn(logEntry("warn", "no handler", name), log) >= 1
      /\ BagCardinality(log) <= calls
      /\ lastOp.called = NoHandler
      /\ lastOp.result = Undefined
      /\ ~ lastOp.threw

\* getClaim was called with a handler assigned to 'claims:set' and none to
\* 'claims:get'.
C6_Witness ==
  /\ lastOp.op = "getClaim"
  /\ handlers["claims:get"] = NoHandler
  /\ handlers["claims:set"] # NoHandler

\* C7: a call on(event, h) for an event that has no handler assigns h and
\* logs nothing; a call for an event that has one (or for an unknown name)
\* leaves the handler table as it was and logs exactly one entry; and no
\* step changes a handler once assigned, so the active handler is the
\* first one registered.
C7_SingleAssignment ==
  [][ /\ \A k \in DOMAIN handlers :
           handlers[k] # NoHandler => handlers'[k] = handlers[k]
      /\ (calls' = calls + 1 /\ lastOp'.op = "on") =>
           IF lastOp'.event \in EventNames /\ handlers[lastOp'.event] = NoHandler
           THEN /\ handlers' = [handlers EXCEPT ![lastOp'.event] = lastOp'.handler]
                /\ log' = log
           ELSE /\ handlers' = handlers
                /\ BagCardinality(log') = BagCardinality(log) + 1
                /\ \E msg \in {"does not exist", "already assigned"} :
                     log' = log (+) SetToBag({logEntry("error", msg, lastOp'.event)}) ]_vars

\* A second handler was offered for an event and rejected: the first is
\* still the active one.
C7_Witness ==
  /\ lastOp.op = "on"
  /\ lastOp.event \in EventNames
  /\ lastOp.logged = 1
  /\ handlers[lastOp.event] \in Handlers \ {lastOp.handler}

(***************************************************************************)
(* ServerSessionManagerInternal (session.ts lines 76-133).                 *)
(***************************************************************************)
\* The characters an identifier is drawn from (line 88).
charset ==
  <<"q", "w", "e", "r", "t", "y", "u", "i", "o", "p", "a", "s", "d",
     "f", "g", "h", "j", "k", "l", "z", "x", "c", "v", "b", "n", "m",
     "Q", "W", "E", "R", "T", "Y", "U", "I", "O", "P", "A", "S", "D",
     "F", "G", "H", "J", "K", "L", "Z", "X", "C", "V", "B", "N", "M",
     "0", "1", "2", "3", "4", "5", "6", "7", "8", "9">>

IdLength == 20

\* Math.random() is n / RandomGrain for some n in 0..RandomGrain-1.
RandomGrain == 124

\* Math.floor(Math.random() * charset.length), line 93.
randomIndex(n) == (n * Len(charset)) \div RandomGrain

\* The random numbers one call of __generateSessionId may draw.
Draws ==
  {[i \in 1..IdLength + 1 |-> (seed + i * step) % RandomGrain] :
     seed \in {0, RandomGrain - 1}, step \in {7}}

RECURSIVE generateFrom(_, _, _)
generateFrom(id, i, draws) ==
  IF i < IdLength
  THEN generateFrom(Append(id, charset[randomIndex(draws[i + 1]) + 1]), i + 1, draws)
  ELSE id

\* A loop that starts at 1.
generateSessionIdShort(draws) == generateFrom(<<>>, 1, draws)

\* __generateSessionId(), lines 86-99.
generateSessionId(draws) == generateFrom(<<>>, 0, draws)

\* The value of sessionId in a cookie jar of the request.
Absent == [kind |-> "absent", value |-> <<>>]

String(v) == [kind |-> "string", value |-> v]

idA == <<"a", "b", "c">>

idB == <<"x", "y">>

\* The cookies a request may come with: none, an empty sessionId, an
\* identifier among the unsigned cookies, one among the signed cookies.
Jars ==
  {[cookies |-> Absent, signedCookies |-> Absent],
   [cookies |-> String(<<>>), signedCookies |-> Absent],
   [cookies |-> String(idA), signedCookies |-> Absent],
   [cookies |-> Absent, signedCookies |-> String(idB)]}

\* JavaScript truthiness of a cookie value (line 106).
truthy(c) == c.kind = "string" /\ c.value # <<>>

\* The jar of the other configuration.
selectedCookiesSwapped(req) == IF signed THEN req.cookies ELSE req.signedCookies

\* An identifier taken from whichever jar holds one.
selectedCookiesEither(req) ==
  IF truthy(req.signedCookies) THEN req.signedCookies ELSE req.cookies

\* const cookies = this.__signed ? req.signedCookies : req.cookies (line 103).
selectedCookies(req) == IF signed THEN req.signedCookies ELSE req.cookies

NoCookie == [set |-> FALSE, value |-> <<>>, signed |-> FALSE]

\* What a call of the 'created' handler may do.
Outcomes == {"returns", "throws", "promise"}

newRequest(cookies, signedCookies) ==
  [cookies |-> cookies, signedCookies |-> signedCookies,
   sessionId |-> <<>>, cookie |-> NoCookie, generated |-> 0,
   handler |-> NoHandler, created |-> <<>>, promise |-> "none",
   chain |-> "idle", errors |-> 0, nextCalls |-> 0, threw |-> FALSE]

\* The promise of the async function of line 121: calling a property that
\* holds no function throws inside it, as does a handler that throws; a
\* handler that returns a value fulfils it; a handler that returns a
\* promise leaves it pending.
createdPromise(h, outcome) ==
  IF h = NoHandler THEN "rejected"
  ELSE IF outcome = "throws" THEN "rejected"
  ELSE IF outcome = "returns" THEN "fulfilled"
  ELSE "pending"

\* middleware(req, res, next), lines 101-131, up to its return: the
\* callbacks of catch and finally run later.
middleware(cookies, signedCookies, draws, outcome) ==
  /\ Len(reqs) < MaxRequests
  /\ LET req == newRequest(cookies, signedCookies)
         jar == selectedCookies(req)
         h == handlers["created"]
     IN  IF truthy(jar)
         THEN reqs' = Append(reqs, [req EXCEPT !.sessionId = jar.value,
                                               !.nextCalls = 1])
         ELSE \E id \in {generateSessionId(draws)} :
              reqs' = Append(reqs,
                [req EXCEPT !.sessionId = id,
                            !.generated = 1,
                            !.cookie = [set |-> TRUE, value |-> id, signed |-> signed],
                            !.handler = h,
                            !.created = IF h = NoHandler THEN <<>>
                                        ELSE <<[handler |-> h, arg |-> id]>>,
                            !.promise = createdPromise(h, outcome)])
  /\ UNCHANGED <<signed, handlers, log, lastOp, calls>>
  /\ UNCHANGED outsideSession

\* The promise a 'created' handler returned is settled.
settle(r, how) ==
  /\ r \in 1..Len(reqs)
  /\ reqs[r].promise = "pending"
  /\ reqs' = [reqs EXCEPT ![r].promise = how]
  /\ UNCHANGED <<signed, handlers, log, lastOp, calls>>
  /\ UNCHANGED outsideSession

\* The callback of catch, lines 122-126.
onRejected(r) ==
  /\ r \in 1..Len(reqs)
  /\ reqs[r].promise = "rejected"
  /\ reqs[r].chain = "idle"
  /\ log' = written(logEntry("error", "threw an error", "created"))
  /\ reqs' = [reqs EXCEPT ![r].chain = "caught", ![r].errors = @ + 1]
  /\ UNCHANGED <<signed, handlers, lastOp, calls>>
  /\ UNCHANGED outsideSession

\* A continuation attached with then: it runs for a fulfilled promise only.
thenReady(req) == req.promise = "fulfilled" /\ req.chain = "idle"

\* The promise catch returned is settled: finally's callback may run.
finallyReady(req) ==
  \/ req.promise = "fulfilled" /\ req.chain = "idle"
  \/ req.chain = "caught"

\* A callback of finally that waits for the requests that came earlier.
onFinallyInTurn(r) ==
  /\ r \in 1..Len(reqs)
  /\ finallyReady(reqs[r])
  /\ \A q \in 1..(r - 1) : reqs[q].nextCalls = 1
  /\ reqs' = [reqs EXCEPT ![r].chain = "finished", ![r].nextCalls = @ + 1]
  /\ UNCHANGED <<signed, handlers, log, lastOp, calls>>
  /\ UNCHANGED outsideSession

\* The callback of finally, line 127.
onFinally(r) ==
  /\ r \in 1..Len(reqs)
  /\ finallyReady(reqs[r])
  /\ reqs' = [reqs EXCEPT ![r].chain = "finished", ![r].nextCalls = @ + 1]
  /\ UNCHANGED <<signed, handlers, log, lastOp, calls>>
  /\ UNCHANGED outsideSession

\* A manager as constructed, signing on or off (lines 78-84).
SessionInit ==
  /\ StartupIdle
  /\ signed \in BOOLEAN
  /\ handlers = [k \in {"created", "claims:get", "claims:set",
                        "claimsGet", "claimsSet"} |-> NoHandler]
  /\ log = EmptyBag
  /\ lastOp = NoOp
  /\ calls = 0
  /\ reqs = <<>>
  /\ ValidationIdle

Requests == 1..MaxRequests

SessionNext ==
  \/ on("created", "h1")
  \/ \E jars \in Jars, draws \in Draws, outcome \in Outcomes :
       middleware(jars.cookies, jars.signedCookies, draws, outcome)
  \/ \E r \in Requests, how \in {"fulfilled", "rejected"} : settle(r, how)
  \/ \E r \in Requests : onRejected(r)
  \/ \E r \in Requests : onFinally(r)

SessionSpec == SessionInit /\ [][SessionNext]_vars

(***************************************************************************)
(* Claims about the session middleware.                                    *)
(***************************************************************************)
Arrived == 1..Len(reqs)

\* The sessionId cookie of the jar the configuration selects, read off the
\* request as it was presented.
presented(req) == IF signed THEN req.signedCookies ELSE req.cookies

presentsId(req) == presented(req).kind = "string" /\ presented(req).value # <<>>

charsOf(id) == {id[i] : i \in 1..Len(id)}

\* C8: a request that presents no valid identifier while a 'created'
\* handler is assigned gets a generated identifier of 20 characters of the
\* charset, set on the request and written to the response cookie, and the
\* handler is invoked exactly once, with that identifier.
C8_SessionGenerated ==
  \A r \in Arrived :
    (~ presentsId(reqs[r]) /\ reqs[r].handler # NoHandler) =>
      /\ reqs[r].generated = 1
      /\ Len(reqs[r].sessionId) = 20
      /\ charsOf(reqs[r].sessionId) \subseteq {charset[i] : i \in 1..Len(charset)}
      /\ reqs[r].cookie.set
      /\ reqs[r].cookie.value = reqs[r].sessionId
      /\ reqs[r].created = <<[handler |-> reqs[r].handler, arg |-> reqs[r].sessionId]>>

\* A request with an empty sessionId cookie went the whole way with a
\* handler assigned: identifier generated, handler settled, next called.
C8_Witness ==
  \E r \in Arrived :
    /\ presented(reqs[r]) = String(<<>>)
    /\ reqs[r].handler \in Handlers
    /\ Len(reqs[r].created) = 1
    /\ reqs[r].chain = "finished"

\* C9: a request that presents an identifier resolves to exactly that
\* identifier: none is generated, no cookie is written and the 'created'
\* handler is not invoked; so it is for every request that presents it.
C9_PresentedIdResolved ==
  \A r \in Arrived :
    presentsId(reqs[r]) =>
      /\ reqs[r].sessionId = presented(reqs[r]).value
      /\ reqs[r].generated = 0
      /\ reqs[r].cookie = NoCookie
      /\ reqs[r].created = <<>>
      /\ reqs[r].promise = "none"

\* Two consecutive requests presented the same identifier, with a 'created'
\* handler assigned.
C9_Witness ==
  /\ Len(reqs) >= 2
  /\ presentsId(reqs[1])
  /\ presented(reqs[2]) = presented(reqs[1])
  /\ reqs[1].sessionId = reqs[2].sessionId
  /\ handlers["created"] # NoHandler

\* What C10 says of one request at any moment: next is called at most once
\* and at once when an identifier is presented; on the creation path it is
\* not called while the handler is unsettled, and when it is called after a
\* failure, the failure has been logged exactly once; the middleware itself
\* throws nothing.
continuesSafely(req) ==
  /\ req.nextCalls <= 1
  /\ ~ req.threw
  /\ req.promise = "none" => req.nextCalls = 1
  /\ req.promise = "pending" => req.nextCalls = 0
  /\ req.promise = "fulfilled" => req.errors = 0
  /\ (req.promise = "rejected" /\ req.nextCalls = 1) => req.errors = 1
  /\ req.errors <= 1
  /\ req.chain = "finished" <=> (req.promise # "none" /\ req.nextCalls = 1)

\* No callback of the request's promise chain is left to run.
callbacksDone(r) == ~ ENABLED onRejected(r) /\ ~ ENABLED onFinally(r)

\* C10: for every request next is called exactly once: at once when an
\* identifier is presented, and on the creation path once the handler has
\* settled, whether it returned, threw or rejected (then with the failure
\* logged and not propagated), and never before; a request whose handler
\* has settled and whose callbacks have run has had its next called.
C10_NextExactlyOnce ==
  \A r \in Arrived :
    /\ continuesSafely(reqs[r])
    /\ (reqs[r].promise \in {"fulfilled", "rejected"} /\ callbacksDone(r))
         => reqs[r].nextCalls = 1

\* A handler returned a promise that was rejected later; the failure was
\* logged and next was called.
C10_Witness ==
  \E r \in Arrived :
    /\ reqs[r].handler \in Handlers
    /\ reqs[r].promise = "rejected"
    /\ reqs[r].errors = 1
    /\ reqs[r].nextCalls = 1
    /\ \E q \in Arrived : reqs[q].promise = "pending"

\* The request has been given to the middleware and its next is not yet
\* called.
inFlight(r) == r \in Arrived /\ reqs[r].nextCalls = 0

\* C11: two requests of one client that both present no identifier and are
\* in flight at the same time have one session: the same identifier, and
\* one invocation of the 'created' handler between them.
C11_SingleSessionPerClient ==
  \A r, q \in Arrived :
    (r < q /\ inFlight(r) /\ inFlight(q)
       /\ ~ presentsId(reqs[r]) /\ ~ presentsId(reqs[q])
       /\ reqs[r].cookies = reqs[q].cookies
       /\ reqs[r].signedCookies = reqs[q].signedCookies) =>
      /\ reqs[r].sessionId = reqs[q].sessionId
      /\ Len(reqs[r].created) + Len(reqs[q].created) <= 1

(***************************************************************************)
(* Input validation (main.ts lines 140-220).  JavaScript values are        *)
(* records [kind, value, fields]: a string's value is its characters, an   *)
(* object's fields are its <<key, value>> pairs, and a key an object does  *)
(* not have reads as undefined.                                            *)
(***************************************************************************)
MaxRules == 2

Undef == [kind |-> "undefined", value |-> <<>>, fields |-> {}]

Null == [kind |-> "null", value |-> <<>>, fields |-> {}]

Str(chars) == [kind |-> "string", value |-> chars, fields |-> {}]

Number(digits) == [kind |-> "number", value |-> digits, fields |-> {}]

Array == [kind |-> "array", value |-> <<>>, fields |-> {}]

\* A property set to undefined reads like a property that is not there.
Object(pairs) ==
  [kind |-> "object", value |-> <<>>, fields |-> {p \in pairs : p[2] # Undef}]

\* !! value
toBoolean(v) ==
  CASE v.kind \in {"undefined", "null"} -> FALSE
    [] v.kind = "string" -> v.value # <<>>
    [] v.kind = "number" -> v.value # <<"0">>
    [] OTHER -> TRUE

\* The upper-case letters and their positions in charset, where they
\* follow the lower-case letters in the same order.
upperCase == {charset[i] : i \in 27..52}

indexOf(c) == CHOOSE i \in 27..52 : charset[i] = c

\* String.prototype.toLowerCase
toLowerCase(s) ==
  [i \in 1..Len(s) |->
     IF s[i] \in upperCase THEN charset[indexOf(s[i]) - 26] ELSE s[i]]

RECURSIVE trimStart(_)
trimStart(s) == IF s # <<>> /\ s[1] = " " THEN trimStart(Tail(s)) ELSE s

RECURSIVE trimEnd(_)
trimEnd(s) ==
  IF s # <<>> /\ s[Len(s)] = " " THEN trimEnd(SubSeq(s, 1, Len(s) - 1)) ELSE s

\* String.prototype.trim
trim(s) == trimEnd(trimStart(s))

\* The characters as one string, for a message.
RECURSIVE text(_)
text(chars) == IF chars = <<>> THEN "" ELSE chars[1] \o text(Tail(chars))

\* value[key]: a TypeError on undefined and null, the property of an
\* object, and undefined on a primitive or an array without such a key.
canRead(v) == v.kind \notin {"undefined", "null"}

get(v, key) ==
  IF \E p \in v.fields : p[1] = key
  THEN (CHOOSE p \in v.fields : p[1] = key)[2]
  ELSE Undef

\* req.header(name): the lookup is by the lower-cased name.
header(req, name) ==
  IF toLowerCase(name) \in DOMAIN req.headers
  THEN req.headers[toLowerCase(name)]
  ELSE Undef

(***************************************************************************)
(* The requests.                                                           *)
(***************************************************************************)
XValues == {Undef, Str(<<>>), Str(<<" ", "a", " ">>), Str(<<"b">>)}

YValues == {Undef, Str(<<"b">>)}

QValues == {Undef, Str(<<>>), Str(<<"1">>)}

\* The keys of the documented body validator.
title == <<"t", "i", "t", "l", "e">>

release == <<"r", "e", "l", "e", "a", "s", "e">>

year == <<"y", "e", "a", "r">>

Years == {Undef, Number(<<"2", "0">>), Str(<<"2", "0">>)}

Releases == {Undef, Null, Array} \cup {Object({<<year, y>>}) : y \in Years}

Titles == {Undef, Str(<<"t">>)}

Bodies ==
  {Str(<<"t">>), Array, Null}
    \cup {Object({<<title, t>>, <<release, r>>}) :
             t \in Titles, r \in Releases}

HttpRequests ==
  {[headers |-> (<<"x">> :> x) @@ (<<"y">> :> y),
    query |-> Object({<<<<"q">>, q>>}),
    body |-> b] : x \in XValues, y \in YValues, q \in QValues, b \in Bodies}

(***************************************************************************)
(* The validation rules of a route (core models: ValidationRule).  An      *)
(* object literal is the sequence of its entries in key order.  The        *)
(* validators of the four rule types are given one shape, a sequence of    *)
(* entries [key, fn, sub, expected]: a header and its expected value, a    *)
(* query parameter name, a body key with its predicate or its subtree, and *)
(* for a Custom rule the one predicate.                                    *)
(***************************************************************************)
\* Predicates a developer supplies for body values and for requests.
validatorFunction(fn, v) ==
  CASE fn = "isStr" -> v.kind = "string"
    [] fn = "isNum" -> v.kind = "number"
    [] fn = "wantsY" -> toBoolean(header(v, <<"y">>))
    [] OTHER -> FALSE

Leaf(key, fn) == [key |-> key, fn |-> fn, sub |-> <<>>, expected |-> <<>>]

Subtree(key, sub) ==
  [key |-> key, fn |-> "none", sub |-> sub, expected |-> <<>>]

Expected(key, value) ==
  [key |-> key, fn |-> "none", sub |-> <<>>, expected |-> value]

Name(key) == [key |-> key, fn |-> "none", sub |-> <<>>, expected |-> <<>>]

BodyValidators ==
  LET t == Leaf(title, "isStr")
      r == Subtree(release, <<Leaf(year, "isNum")>>)
  IN  {<<t>>, <<r>>, <<t, r>>, <<r, t>>}

HeaderValidators ==
  LET X(value) == Expected(<<"X">>, value)
      y == Expected(<<"y">>, <<"b", " ">>)
  IN  {<<X(<<"A">>)>>, <<X(<<>>)>>, <<y, X(<<"A">>)>>}

QueryValidators == {<<Name(<<"q">>)>>}

CustomValidators == {<<Leaf(<<>>, "wantsY")>>}

Rules ==
  {[type |-> "Header", validator |-> v] : v \in HeaderValidators}
    \cup {[type |-> "Query", validator |-> v] : v \in QueryValidators}
    \cup {[type |-> "Body", validator |-> v] : v \in BodyValidators}
    \cup {[type |-> "Custom", validator |-> v] : v \in CustomValidators}

\* Outcomes of evaluating a rule, or the body of a request.
Pass == [outcome |-> "pass", message |-> "", applied |-> <<>>]

Fail(message, paths) ==
  [outcome |-> "fail", message |-> message, applied |-> paths]

Throw(paths) == [outcome |-> "throw", message |-> "TypeError", applied |-> paths]

\* The key alone, without the path that leads to it.
keyPathBare(prefix, key) == key

\* Line 150.
keyPath(prefix, key) == IF prefix # <<>> THEN prefix \o <<".">> \o key ELSE key

\* bodyValidation from the i-th key of the validator on (lines 148-167);
\* paths are the key paths of the predicates applied so far.
RECURSIVE bodyValidationFrom(_, _, _, _, _)
bodyValidationFrom(bodyValidator, body, prefix, i, paths) ==
  IF i > Len(bodyValidator) THEN [Pass EXCEPT !.applied = paths]
  ELSE LET entry == bodyValidator[i]
           at == keyPath(prefix, entry.key)
       IN  IF ~ canRead(body) THEN Throw(paths)
           ELSE IF entry.fn # "none"
           THEN IF ~ validatorFunction(entry.fn, get(body, entry.key))
                THEN Fail("Invalid property \"" \o text(at) \o "\" on body!",
                          Append(paths, at))
                ELSE bodyValidationFrom(bodyValidator, body, prefix, i + 1,
                                        Append(paths, at))
           ELSE LET error == bodyValidationFrom(entry.sub,
                                                get(body, entry.key), at, 1,
                                                paths)
                IN  IF error.outcome # "pass" THEN error
                    ELSE bodyValidationFrom(bodyValidator, body, prefix,
                                            i + 1, error.applied)

\* bodyValidation(bodyValidator, body), lines 146-169.
bodyValidation(bodyValidator, body) ==
  bodyValidationFrom(bodyValidator, body, <<>>, 1, <<>>)

\* The Header branch from the i-th key on (lines 179-186).
RECURSIVE headerFrom(_, _, _)
headerFrom(validator, i, req) ==
  IF i > Len(validator) THEN Pass
  ELSE LET key == validator[i].key
           value == header(req, key)
       IN  IF \/ ~ toBoolean(value)
              \/ trim(toLowerCase(value.value))
                   # trim(toLowerCase(validator[i].expected))
           THEN Fail("Invalid header \"" \o text(key) \o "\"!", <<>>)
           ELSE headerFrom(validator, i + 1, req)

\* The Query branch from the i-th name on (lines 191-195).
RECURSIVE queryFrom(_, _, _)
queryFrom(validator, i, req) ==
  IF i > Len(validator) THEN Pass
  ELSE IF ~ toBoolean(get(req.query, validator[i].key))
       THEN Fail("Missing query parameter \"" \o text(validator[i].key)
                   \o "\"!", <<>>)
       ELSE queryFrom(validator, i + 1, req)

\* One turn of the loop over route.validate (lines 177-212).
evaluate(rule, req) ==
  CASE rule.type = "Header" -> headerFrom(rule.validator, 1, req)
    [] rule.type = "Query" -> queryFrom(rule.validator, 1, req)
    [] rule.type = "Body" ->
         IF \/ ~ toBoolean(req.body)
            \/ req.body.kind \notin {"object", "array"}
            \/ req.body.kind # "object"
         THEN Fail("Invalid body type!", <<>>)
         ELSE bodyValidation(rule.validator, req.body)
    [] rule.type = "Custom" ->
         IF ~ validatorFunction(rule.validator[1].fn, req)
         THEN Fail("Invalid request!", <<>>)
         ELSE Pass

\* The loop over route.validate from the i-th rule on (lines 175-214): seen
\* are the rules evaluated so far, paths the body predicates applied so far.
RECURSIVE rulesFrom(_, _, _, _, _)
rulesFrom(validate, i, req, seen, paths) ==
  IF i > Len(validate)
  THEN [outcome |-> "pass", message |-> "", evaluated |-> seen,
        applied |-> paths]
  ELSE LET result == evaluate(validate[i], req)
           now == Append(seen, i)
           all == paths \o [j \in 1..Len(result.applied) |->
                              <<i, result.applied[j]>>]
       IN  IF result.outcome # "pass"
           THEN [outcome |-> result.outcome, message |-> result.message,
                 evaluated |-> now, applied |-> all]
           ELSE rulesFrom(validate, i + 1, req, now, all)

\* A loop that starts at the second rule.
createValidationMiddlewareLate(r, req) ==
  rulesFrom(r.validate, 2, req, <<>>, <<>>)

\* One run of the handler createValidationMiddleware(route) returns, lines
\* 171-220.
createValidationMiddleware(r, req) ==
  rulesFrom(r.validate, 1, req, <<>>, <<>>)

\* A rejection that answers 200.
rejectForValidationOk(sent, message) ==
  Append(sent, [status |-> 200, code |-> "VALIDATION_FAILED",
                message |-> message])

\* rejectForValidation(res, message), lines 140-144.
rejectForValidation(sent, message) ==
  Append(sent, [status |-> 400, code |-> "VALIDATION_FAILED",
                message |-> message])

\* The routes: a validate list of up to MaxRules rules.
Routes == {[validate |-> v] : v \in SeqsUpTo(Rules, MaxRules)}

\* The validation middleware is given a request (lines 173-218).
validationMiddleware(req) ==
  /\ vpc = "listening"
  /\ \E run \in {createValidationMiddleware(route, req)} :
       /\ request' = req
       /\ evaluated' = run.evaluated
       /\ applied' = run.applied
       /\ res' = IF run.outcome = "fail"
                 THEN rejectForValidation(res, run.message)
                 ELSE res
       /\ nextCalls' = IF run.outcome = "pass" THEN nextCalls + 1 ELSE nextCalls
       /\ threw' = (run.outcome = "throw")
  /\ vpc' = "validated"
  /\ UNCHANGED <<route, startupVars, installVars, sessionVars, serveVars>>

\* next() of the validation middleware runs the last handler of the chain,
\* the router's method (line 298).
routeHandler ==
  /\ vpc = "validated"
  /\ nextCalls > 0
  /\ vpc' = "handled"
  /\ UNCHANGED <<route, request, res, nextCalls, evaluated, applied, threw,
                 startupVars, installVars, sessionVars, serveVars>>

\* An exception of the chain reaches the error handler (lines 323-329).
errorHandler ==
  /\ vpc = "validated"
  /\ threw
  /\ res' = Append(res, [status |-> 500, code |-> "none",
                         message |-> "An internal error has occurred!"])
  /\ vpc' = "errored"
  /\ UNCHANGED <<route, request, nextCalls, evaluated, applied, threw,
                 startupVars, installVars, sessionVars, serveVars>>

\* A route with a validate list is installed and no request has come.
ValidationInit ==
  /\ StartupIdle
  /\ SessionIdle
  /\ route \in Routes
  /\ request = NoRequest
  /\ res = <<>>
  /\ nextCalls = 0
  /\ evaluated = <<>>
  /\ applied = <<>>
  /\ threw = FALSE
  /\ vpc = "listening"

ValidationNext ==
  \/ \E req \in HttpRequests : validationMiddleware(req)
  \/ routeHandler
  \/ errorHandler

ValidationSpec == ValidationInit /\ [][ValidationNext]_vars

(***************************************************************************)
(* Properties of input validation.                                         *)
(***************************************************************************)
\* The validation middleware has run on the request.
validated == vpc \in {"validated", "handled", "errored"}

\* What the i-th rule of the route makes of the request, on its own.
outcomeOf(i) == evaluate(route.validate[i], request).outcome

\* The outcomes of the rules from the i-th on, each on its own.
RECURSIVE outcomesFrom(_)
outcomesFrom(i) ==
  IF i > Len(route.validate) THEN <<>>
  ELSE <<outcomeOf(i)>> \o outcomesFrom(i + 1)

allPassIn(outs) == \A i \in 1..Len(outs) : outs[i] = "pass"

\* The request fails the i-th rule, having passed the rules before it.
failsAt(outs, i) ==
  /\ outs[i] = "fail"
  /\ \A k \in 1..(i - 1) : outs[k] = "pass"

\* The rule evaluated last is of this type and a rejection was sent.
rejectedBy(type) ==
  /\ evaluated # <<>>
  /\ route.validate[evaluated[Len(evaluated)]].type = type
  /\ res # <<>>
  /\ res[1].status = 400

\* C12: the rules are evaluated in declared order, evaluation stops at the
\* first rule that does not pass, and the route handler runs if and only if
\* every rule passed.
C12_DeclaredOrderFirstFailure ==
  validated =>
    \A outs \in {outcomesFrom(1)} :
      /\ Len(evaluated) <= Len(route.validate)
      /\ \A k \in 1..Len(evaluated) : evaluated[k] = k
      /\ \A k \in 1..(Len(evaluated) - 1) : outs[k] = "pass"
      /\ \A i \in (Len(evaluated) + 1)..Len(route.validate) :
           \E k \in 1..Len(evaluated) : outs[k] # "pass"
      /\ (nextCalls = 1) <=> allPassIn(outs)
      /\ (nextCalls = 0) <=> ~ allPassIn(outs)
      /\ vpc = "handled" => allPassIn(outs)
      /\ (allPassIn(outs) /\ vpc # "handled") => ENABLED routeHandler

\* Two rules the request fails: only the first is evaluated.
C12_Witness ==
  /\ vpc = "validated"
  /\ Len(route.validate) = 2
  /\ evaluated = <<1>>
  /\ outcomeOf(1) = "fail"
  /\ outcomeOf(2) = "fail"
  /\ nextCalls = 0

C13_OneRejection ==
  validated =>
    \A outs \in {outcomesFrom(1)} :
      /\ \A i \in 1..Len(outs) :
           failsAt(outs, i) =>
             /\ Len(res) = 1
             /\ res[1].status = 400
             /\ res[1].code = "VALIDATION_FAILED"
             /\ nextCalls = 0
             /\ vpc = "validated"
      /\ allPassIn(outs) => (res = <<>> /\ nextCalls = 1)

\* C13: a request that fails a rule of any type gets exactly one response,
\* with status 400 and code VALIDATION_FAILED, and next is not called; a
\* request that passes all rules gets no response from the validation step
\* and next is called exactly once; the validation step changes no
\* process-wide state.
C13_ValidationFailureIsLocal ==
  /\ [] C13_OneRejection
  /\ [][(vpc = "listening" /\ vpc' = "validated") =>
          UNCHANGED <<route, startupVars, installVars, sessionVars>>]_vars

\* A request passes a first rule and is rejected by a second one, a Custom
\* rule.
C13_Witness ==
  /\ vpc = "validated"
  /\ evaluated = <<1, 2>>
  /\ rejectedBy("Custom")
  /\ nextCalls = 0

\* C14: a Query rule fails only when a declared parameter is absent from
\* the parsed query: a parameter present with the empty string passes.
C14_QueryPresenceOnly ==
  (validated /\ rejectedBy("Query")) =>
    LET names == route.validate[evaluated[Len(evaluated)]].validator
    IN  \E j \in 1..Len(names) : get(request.query, names[j].key) = Undef

\* C15: a Header rule fails if a declared header is missing or its value,
\* trimmed and lower-cased, differs from the expected value trimmed and
\* lower-cased, and passes otherwise.
C15_HeaderNormalisedMatch ==
  (validated /\ evaluated # <<>>
     /\ route.validate[evaluated[Len(evaluated)]].type = "Header") =>
    LET declared == route.validate[evaluated[Len(evaluated)]].validator
        differs(d) ==
          \/ header(request, d.key) = Undef
          \/ trim(toLowerCase(header(request, d.key).value))
               # trim(toLowerCase(d.expected))
    IN  (res # <<>>) <=> \E j \in 1..Len(declared) : differs(declared[j])

\* C16: evaluating a Body rule ends in pass or in a 400 VALIDATION_FAILED
\* rejection for every validator tree and every body, never in an
\* exception.
C16_BodyRuleNeverThrows ==
  (validated /\ evaluated # <<>>
     /\ route.validate[evaluated[Len(evaluated)]].type = "Body") =>
    /\ ~ threw
    /\ \/ res = <<>> /\ nextCalls = 1
       \/ rejectedBy("Body") /\ res[1].code = "VALIDATION_FAILED"

\* The leaf predicates of a validator tree, depth-first in key order, each
\* with the keys that lead to it from the root.
RECURSIVE leaves(_, _)
leaves(bodyValidator, keys) ==
  IF bodyValidator = <<>> THEN <<>>
  ELSE LET entry == Head(bodyValidator)
           here == Append(keys, entry.key)
       IN  (IF entry.fn # "none"
            THEN <<[keys |-> here, fn |-> entry.fn]>>
            ELSE leaves(entry.sub, here))
             \o leaves(Tail(bodyValidator), keys)

\* The keys joined with dots.
RECURSIVE dotted(_)
dotted(keys) ==
  IF Len(keys) = 1 THEN keys[1] ELSE keys[1] \o <<".">> \o dotted(Tail(keys))

\* The value the keys lead to in a body; undefined when the way is cut.
RECURSIVE valueAtPath(_, _)
valueAtPath(v, keys) ==
  IF keys = <<>> THEN v ELSE valueAtPath(get(v, Head(keys)), Tail(keys))

\* The key paths of the predicates applied for the i-th rule, in order.
appliedFor(i) ==
  LET mine == SelectSeq(applied, LAMBDA a : a[1] = i)
  IN  [j \in 1..Len(mine) |-> mine[j][2]]

\* C17: body validation walks the validator tree depth-first in key order
\* and stops at the first leaf predicate that returns false: the message is
\* 'Invalid property "<path>" on body!' with the dot-joined keys from the
\* root to that leaf, and no predicate after it is applied.
C17_DepthFirstFirstFalseLeaf ==
  validated =>
    \A i \in 1..Len(evaluated) :
      (route.validate[i].type = "Body" /\ request.body.kind = "object") =>
        LET all == leaves(route.validate[i].validator, <<>>)
            done == appliedFor(i)
            n == Len(done)
            holds(j) ==
              validatorFunction(all[j].fn,
                                valueAtPath(request.body, all[j].keys))
            rejected == i = Len(evaluated) /\ rejectedBy("Body")
        IN  /\ n <= Len(all)
            /\ \A j \in 1..n : done[j] = dotted(all[j].keys)
            /\ \A j \in 1..(n - 1) : holds(j)
            /\ rejected =>
                 /\ n >= 1
                 /\ ~ holds(n)
                 /\ res[1].message
                      = "Invalid property \"" \o text(dotted(all[n].keys))
                          \o "\" on body!"
            /\ (~ rejected /\ n >= 1) => holds(n)
            /\ (~ rejected /\ ~ threw) => n = Len(all)

\* The validator { title, release: { year } } on a body whose title is a
\* string and whose release.year is the string "20": the second leaf fails.
C17_Witness ==
  /\ vpc = "validated"
  /\ rejectedBy("Body")
  /\ appliedFor(Len(evaluated)) = <<title, release \o <<".">> \o year>>
  /\ valueAtPath(request.body, <<release, year>>) = Str(<<"2", "0">>)
  /\ res[1].message = "Invalid property \"release.year\" on body!"

(***************************************************************************)
(* Installation of the routes (main.ts lines 236-335).  A router candidate *)
(* carries what its decorator was given: a priority and a route list, each *)
(* of which may be left out.                                               *)
(***************************************************************************)
MaxRouters == 3
MaxRoutes == 2

RouterNames == {"a", "b", "c"}

Priorities ==
  {[declared |-> FALSE, value |-> 0]}
    \cup {[declared |-> TRUE, value |-> n] : n \in {-1, 1, 5}}

\* __metadata.priority as the Router decorator sets it: 0 when none is
\* given (README, Router decorator arguments).
priorityOf(module) ==
  IF module.priority.declared THEN module.priority.value ELSE 0

\* A route definition; "" is a value that is left out or empty (both are
\* falsy), and defined = FALSE is a null entry of the list.
Route(path, handler, method, validate) ==
  [defined |-> TRUE, path |-> path, handler |-> handler, method |-> method,
   validate |-> validate]

RouteCatalog ==
  {[Route("", "", "", FALSE) EXCEPT !.defined = FALSE]}
    \cup {Route("/p", "run", m, v) : m \in {"", "get"}, v \in BOOLEAN}
    \cup {Route("", "run", "", FALSE), Route("/p", "", "", FALSE),
          Route("/p", "missing", "", FALSE), Route("/p", "field", "", FALSE)}

\* The names Object.getOwnPropertyNames finds on the prototype of a router
\* (its methods), and the names under which the instance has a function: a
\* method, or a function held in a property of the instance itself.
ownPropertyNames == {"run"}

isFunction(name) == name \in {"run", "field"}

\* __metadata.routes: left out, or a list.
RouteLists ==
  {[declared |-> FALSE, list |-> <<>>]}
    \cup {[declared |-> TRUE, list |-> l] : l \in SeqsUpTo(RouteCatalog, MaxRoutes)}

RouterClass(name, priority, routes) ==
  [shape |-> "router", name |-> name, onInjection |-> FALSE,
   onConfig |-> FALSE, priority |-> priority, routes |-> routes]

\* Routers that differ in name and priority, each with one valid route.
PriorityCases ==
  SeqsUpTo({RouterClass(n, p, [declared |-> TRUE,
                               list |-> <<Route("/p", "run", "get", FALSE)>>]) :
              n \in RouterNames, p \in Priorities}, MaxRouters)

\* A router with any route list, alone or followed by a second router.
RouteCases ==
  LET first == {RouterClass("a", [declared |-> FALSE, value |-> 0], r) :
                  r \in RouteLists}
      second == {RouterClass("b", [declared |-> FALSE, value |-> 0], r) :
                   r \in {[declared |-> FALSE, list |-> <<>>],
                          [declared |-> TRUE,
                           list |-> <<Route("/p", "missing", "", FALSE),
                                      Route("/p", "run", "", TRUE)>>]}}
  IN  {<<x>> : x \in first} \cup {<<x, y>> : x \in first, y \in second}

\* An iteratee that turns the order around.
iterateeNegated(entry) == 0 - priorityOf(moduleOf(entry))

\* router => router.__metadata.priority (line 250).
iteratee(entry) == priorityOf(moduleOf(entry))

\* The values of the collection as they are.
sortByNone(collection) == collection

\* _.sortBy(routers, iteratee) (line 250): the values of the object in key
\* order, sorted ascending by the iteratee, values of the same rank in the
\* order they had.
RECURSIVE sortBy(_)
sortBy(collection) ==
  IF collection = <<>> THEN <<>>
  ELSE LET last == collection[Len(collection)]
           front == sortBy(SubSeq(collection, 1, Len(collection) - 1))
       IN  SelectSeq(front, LAMBDA e : iteratee(e) <= iteratee(last))
             \o <<last>>
             \o SelectSeq(front, LAMBDA e : iteratee(e) > iteratee(last))

\* A layer of the application: how it was mounted, and its handlers.
Layer(kind, method, path, owner, index, chain) ==
  [kind |-> kind, method |-> method, path |-> path, owner |-> owner,
   index |-> index, handlers |-> chain]

Handler(kind, owner, name) == [kind |-> kind, owner |-> owner, name |-> name]

\* The 404 router mounted with the body parsers, ahead of the routes.
installNotFoundEarly ==
  /\ pc = "injected"
  /\ app' = app \o [i \in 1..4 |->
                      Layer("parser", "use", "", 0, i,
                            <<Handler(<<"text", "json", "raw", "urlencoded">>[i],
                                      0, "")>>)]
                \o <<Layer("error", "use", "", 0, 1,
                           <<Handler("invalidBody", 0, "")>>),
                     Layer("notFound", "use", "*", 0, 1,
                           <<Handler("notFound", 0, "")>>)>>
  /\ pc' = "parsers"
  /\ UNCHANGED <<candidates, cursor, services, routers, heap, config, pass,
                 injIdx, trace, sorted, rIdx, routeIdx, console>>
  /\ UNCHANGED <<sessionVars, validationVars, serveVars>>

\* The body parsers and the responder for a body that cannot be parsed
\* (lines 236-247).
installBodyParsers ==
  /\ pc = "injected"
  /\ app' = app \o [i \in 1..4 |->
                      Layer("parser", "use", "", 0, i,
                            <<Handler(<<"text", "json", "raw", "urlencoded">>[i],
                                      0, "")>>)]
                \o <<Layer("error", "use", "", 0, 1,
                           <<Handler("invalidBody", 0, "")>>)>>
  /\ pc' = "parsers"
  /\ UNCHANGED <<candidates, cursor, services, routers, heap, config, pass,
                 injIdx, trace, sorted, rIdx, routeIdx, console>>
  /\ UNCHANGED <<sessionVars, validationVars, serveVars>>

\* routers = _.sortBy(routers, ...) (lines 249-250).
sortRouters ==
  /\ pc = "parsers"
  /\ sorted' = sortBy(routers)
  /\ rIdx' = 1
  /\ routeIdx' = 1
  /\ pc' = "routes"
  /\ UNCHANGED <<candidates, cursor, services, routers, heap, config, pass,
                 injIdx, trace, app, console>>
  /\ UNCHANGED <<sessionVars, validationVars, serveVars>>

\* A handler under any name that holds a function.
handlerFoundLoose(r) == isFunction(r.handler)

\* The test of lines 273-274.
handlerFound(r) ==
  r.handler \in ownPropertyNames /\ isFunction(r.handler)

\* The handlers with the validation step ahead of the request log.
handlersOfValidationFirst(entry, r) ==
  (IF r.validate THEN <<Handler("validation", 0, "")>> ELSE <<>>)
    \o (IF heap[config].verboseLogs THEN <<Handler("logger", 0, "")>> ELSE <<>>)
    \o <<Handler("bound", entry.inst, r.handler)>>

\* The handlers of a route, lines 281-298.
handlersOf(entry, r) ==
  (IF heap[config].verboseLogs THEN <<Handler("logger", 0, "")>> ELSE <<>>)
    \o (IF r.validate THEN <<Handler("validation", 0, "")>> ELSE <<>>)
    \o <<Handler("bound", entry.inst, r.handler)>>

\* One turn of the loops over the routers and their routes (lines 253-312):
\* a router without routes, or one route of a router.
installRoutes ==
  /\ pc = "routes"
  /\ rIdx <= Len(sorted)
  /\ LET entry == sorted[rIdx]
         routes == moduleOf(entry).routes
         said(what, about) ==
           Append(console, [text |-> what, router |-> entry.name,
                            about |-> about])
     IN  IF ~ routes.declared \/ Len(routes.list) = 0
         THEN /\ console' = said("has no defined routes", "")
              /\ rIdx' = rIdx + 1
              /\ UNCHANGED <<app, routeIdx>>
         ELSE LET r == routes.list[routeIdx] IN
              /\ IF ~ r.defined \/ r.path = "" \/ r.handler = ""
                 THEN /\ console' = said("has incorrectly defined a route", "")
                      /\ UNCHANGED app
                 ELSE IF ~ handlerFound(r)
                 THEN /\ console' = said("route handler not found", r.handler)
                      /\ UNCHANGED app
                 ELSE /\ app' = Append(app,
                                  Layer("route",
                                        IF r.method # "" THEN r.method ELSE "use",
                                        r.path, entry.inst, routeIdx,
                                        handlersOf(entry, r)))
                      /\ console' = IF heap[config].verboseLogs
                                    THEN said("was installed", r.path)
                                    ELSE console
              /\ IF routeIdx < Len(routes.list)
                 THEN routeIdx' = routeIdx + 1 /\ UNCHANGED rIdx
                 ELSE routeIdx' = 1 /\ rIdx' = rIdx + 1
  /\ UNCHANGED <<candidates, pc, cursor, services, routers, heap, config,
                 pass, injIdx, trace, sorted>>
  /\ UNCHANGED <<sessionVars, validationVars, serveVars>>

\* The 404 router, the error handler and app.listen (lines 316-335).
installNotFound ==
  /\ pc = "routes"
  /\ rIdx > Len(sorted)
  /\ app' = Append(app, Layer("notFound", "use", "*", 0, 1,
                              <<Handler("notFound", 0, "")>>))
  /\ pc' = "notFound"
  /\ UNCHANGED <<candidates, cursor, services, routers, heap, config, pass,
                 injIdx, trace, sorted, rIdx, routeIdx, console>>
  /\ UNCHANGED <<sessionVars, validationVars, serveVars>>

installErrorHandler ==
  /\ pc = "notFound"
  /\ app' = Append(app, Layer("error", "use", "", 0, 2,
                              <<Handler("internalError", 0, "")>>))
  /\ pc' = "errorHandler"
  /\ UNCHANGED <<candidates, cursor, services, routers, heap, config, pass,
                 injIdx, trace, sorted, rIdx, routeIdx, console>>
  /\ UNCHANGED <<sessionVars, validationVars, serveVars>>

listen ==
  /\ pc = "errorHandler"
  /\ pc' = "listening"
  /\ UNCHANGED <<candidates, cursor, services, routers, heap, config, pass,
                 injIdx, trace, app, sorted, rIdx, routeIdx, console>>
  /\ UNCHANGED <<sessionVars, validationVars, serveVars>>

\* The script from its start, with routers to install.
InstallInit ==
  /\ \/ /\ candidates \in PriorityCases
        /\ heap = merge([port |-> "absent", verboseLogs |-> "absent",
                         extra |-> "absent"])
     \/ /\ candidates \in RouteCases
        /\ \E v \in {"absent", "false"} :
             heap = merge([port |-> "absent", verboseLogs |-> v,
                           extra |-> "absent"])
  /\ config = 1
  /\ pc = "install"
  /\ cursor = 1
  /\ services = <<>>
  /\ routers = <<>>
  /\ pass = 1
  /\ injIdx = 1
  /\ trace = <<>>
  /\ InstallIdle
  /\ SessionIdle
  /\ ValidationIdle

InstallNext ==
  \/ StartupNext
  \/ installBodyParsers
  \/ sortRouters
  \/ installRoutes
  \/ installNotFound
  \/ installErrorHandler
  \/ listen

InstallSpec == InstallInit /\ [][InstallNext]_vars

(***************************************************************************)
(* Properties of the installation of the routes.                           *)
(***************************************************************************)
\* The routers array has been sorted.
sortDone == pc \in {"routes", "notFound", "errorHandler", "listening"}

\* The loop over the routers has run to its end.
routesDone == pc \in {"notFound", "errorHandler", "listening"}

\* The layers of the application that are routes of routers, in order.
routeLayers == SelectSeq(app, LAMBDA l : l.kind = "route")

\* The place of an entry in a sequence of entries with different names.
placeIn(entries, entry) ==
  CHOOSE i \in 1..Len(entries) : entries[i].name = entry.name

\* The candidate with which a router name was discovered first.
firstSeen(name) ==
  CHOOSE i \in 1..Len(candidates) :
    /\ candidates[i].name = name
    /\ \A k \in 1..(i - 1) : candidates[k].name # name

ascending ==
  \A i, j \in 1..Len(sorted) :
    i < j => iteratee(sorted[i]) <= iteratee(sorted[j])

\* The routers are installed in the order of the sorted array, and none
\* before the array is sorted.
installedInSortedOrder ==
  /\ ~ sortDone => routeLayers = <<>>
  /\ sortDone =>
       \A k, l \in 1..Len(routeLayers) :
         k < l =>
           \E i, j \in 1..Len(sorted) :
             /\ i <= j
             /\ sorted[i].inst = routeLayers[k].owner
             /\ sorted[j].inst = routeLayers[l].owner

\* Every router name is discovered once.
namesDiffer ==
  \A i, j \in 1..Len(candidates) :
    candidates[i].name = candidates[j].name => i = j

\* C18: routers are installed in ascending order of priority, and routers
\* of equal priority keep their discovery order: the order of their names
\* in the router registry, which is the order in which the names were
\* first discovered, and with every name discovered once the order in
\* which the routers themselves were discovered.  The order is fixed
\* before any route is installed.
C18_AscendingStableOrder ==
  /\ installedInSortedOrder
  /\ sortDone =>
       /\ Len(sorted) = Len(routers)
       /\ \A i \in 1..Len(routers) : \E j \in 1..Len(sorted) : sorted[j] = routers[i]
       /\ ascending
       /\ \A i, j \in 1..Len(sorted) :
            (i < j /\ iteratee(sorted[i]) = iteratee(sorted[j])) =>
              /\ placeIn(routers, sorted[i]) < placeIn(routers, sorted[j])
              /\ firstSeen(sorted[i].name) < firstSeen(sorted[j].name)
              /\ namesDiffer => sorted[i].inst < sorted[j].inst

\* Priorities 5, 1, 5 discovered in that order under three names: the
\* routes are installed for the second router, the first and the third.
C18_Witness ==
  /\ pc = "listening"
  /\ Len(candidates) = 3
  /\ [i \in 1..3 |-> candidates[i].priority.value] = <<5, 1, 5>>
  /\ {candidates[i].name : i \in 1..3} = RouterNames
  /\ [k \in 1..Len(routeLayers) |-> routeLayers[k].owner] = <<2, 1, 3>>

installable(r) ==
  r.defined /\ r.path # "" /\ r.handler # "" /\ r.handler \in ownPropertyNames

\* The layers installed for the k-th route of a router.
layersOf(inst, k) ==
  SelectSeq(routeLayers, LAMBDA l : l.owner = inst /\ l.index = k)

\* C20: a router with an empty or absent route list, a route with no path
\* or no handler name and a route whose handler name is not a method of the
\* router are skipped without an error; every other route of every router
\* is installed and startup continues; every installed chain ends with a
\* method of its owning router bound to that router.
C20_SkipAndContinue ==
  /\ pc = "routes" => (ENABLED installRoutes \/ ENABLED installNotFound)
  /\ \A k \in 1..Len(routeLayers) :
       LET l == routeLayers[k]
           last == l.handlers[Len(l.handlers)]
           r == candidates[l.owner].routes.list[l.index]
       IN  /\ installable(r)
           /\ l.path = r.path
           /\ last = Handler("bound", l.owner, r.handler)
           /\ \E i \in 1..Len(sorted) : sorted[i].inst = l.owner
  /\ routesDone =>
       \A i \in 1..Len(sorted) :
         LET routes == moduleOf(sorted[i]).routes IN
         /\ ~ routes.declared =>
              \A l \in 1..Len(routeLayers) : routeLayers[l].owner # sorted[i].inst
         /\ \A k \in 1..Len(routes.list) :
              Len(layersOf(sorted[i].inst, k))
                = IF installable(routes.list[k]) THEN 1 ELSE 0

\* A route whose handler is a function of the instance but no method of
\* the class is skipped, the route after it is installed, a second router
\* has no route list, and the server listens.
C20_Witness ==
  /\ pc = "listening"
  /\ Len(candidates) = 2
  /\ ~ candidates[2].routes.declared
  /\ Len(candidates[1].routes.list) = 2
  /\ candidates[1].routes.list[1].handler = "field"
  /\ Len(layersOf(1, 1)) = 0
  /\ Len(layersOf(1, 2)) = 1

\* The kinds of the handlers of a layer, in the order of the chain.
kindsOf(l) == [i \in 1..Len(l.handlers) |-> l.handlers[i].kind]

\* C21: the chain of every installed route is, in this order, a request-log
\* step exactly when verbose logging is on, a validation step exactly when
\* the route declares rules, and the bound handler of the route, always
\* present and last; a route that declares no method is mounted for all
\* methods, any other route for the method it declares.
C21_ChainComposition ==
  \A k \in 1..Len(routeLayers) :
    LET l == routeLayers[k]
        r == candidates[l.owner].routes.list[l.index]
        verbose == heap[config].verboseLogs
        n == Len(l.handlers)
        at(kind) == {i \in 1..n : l.handlers[i].kind = kind}
    IN  /\ at("bound") = {n}
        /\ l.handlers[n].name = r.handler
        /\ at("logger") = IF verbose THEN {1} ELSE {}
        /\ at("validation") = IF r.validate THEN {n - 1} ELSE {}
        /\ at("logger") \cup at("validation") \cup at("bound") = 1..n
        /\ (r.method = "") = (l.method = "use")
        /\ r.method # "" => l.method = r.method

\* With verbose logging on, a route with rules and no method is mounted for
\* all methods with the three steps, and a route of one method and no rules
\* has the request log and the bound handler.
C21_Witness ==
  /\ pc = "listening"
  /\ heap[config].verboseLogs
  /\ \E k \in 1..Len(routeLayers) :
       /\ routeLayers[k].method = "use"
       /\ kindsOf(routeLayers[k]) = <<"logger", "validation", "bound">>
  /\ \E k \in 1..Len(routeLayers) :
       /\ routeLayers[k].method = "get"
       /\ kindsOf(routeLayers[k]) = <<"logger", "bound">>

(***************************************************************************)
(* A request on its way through the layers of the application, in the      *)
(* order in which main.ts mounted them.                                    *)
(***************************************************************************)
\* The methods and the paths of the requests; a path is its segments.
Methods == {"get", "post"}

Paths == {"/p", "/p/x", "/q"}

segments(path) ==
  CASE path = "/p" -> <<"p">>
    [] path = "/p/x" -> <<"p", "x">>
    [] path = "/q" -> <<"q">>
    [] OTHER -> <<>>

\* app.use(path, ...) is given every request whose path begins with the
\* segments of path, app[method](path, ...) those of that method and that
\* very path, app.use('*', ...) and app.use(...) every request.
pathMatches(l, path) ==
  CASE l.kind = "route" /\ l.method = "use" ->
         /\ Len(segments(l.path)) <= Len(segments(path))
         /\ SubSeq(segments(path), 1, Len(segments(l.path))) = segments(l.path)
    [] l.kind = "route" -> path = l.path
    [] OTHER -> TRUE

methodMatches(l, method) == l.method = "use" \/ l.method = method

\* A handler of four parameters is given the requests that carry an error,
\* and only those; every other handler is given the others.
applies(l, ex) ==
  /\ pathMatches(l, ex.path)
  /\ methodMatches(l, ex.method)
  /\ (l.kind = "error") = (ex.error # "")

\* The request is at a handler of this kind.
arrivedAt(kinds) ==
  /\ exchange.state = "running"
  /\ exchange.layer <= Len(app)
  /\ applies(app[exchange.layer], exchange)
  /\ app[exchange.layer].handlers[exchange.step].kind \in kinds

\* The exchange after the handler it is at has run with this outcome.
handled(outcome) ==
  [exchange EXCEPT
     !.ran = Append(@, [layer |-> exchange.layer, step |-> exchange.step,
                        kind |-> app[exchange.layer].handlers[exchange.step].kind,
                        outcome |-> outcome])]

\* next(): the next handler of the chain, or the next layer after the last.
forwarded(ex) ==
  IF ex.step < Len(app[ex.layer].handlers)
  THEN [ex EXCEPT !.step = @ + 1]
  ELSE [ex EXCEPT !.layer = @ + 1, !.step = 1]

\* A throw or next(error): the layers after this one are given the error.
failed(ex, error) ==
  [ex EXCEPT !.layer = @ + 1, !.step = 1, !.error = error]

\* res.status(status).json(new ServerError(message, code)).
responded(ex, status, message, code) ==
  [ex EXCEPT !.state = "done",
             !.res = Append(@, [status |-> status, code |-> code,
                                message |-> message])]

\* app.listen has been called and a request comes in (line 335).
receive(method, path) ==
  /\ pc = "listening"
  /\ exchange.state = "idle"
  /\ exchange' = [NoExchange EXCEPT !.state = "running", !.method = method,
                                    !.path = path, !.layer = 1, !.step = 1]
  /\ UNCHANGED <<startupVars, sessionVars, validationVars, app, sorted, rIdx,
                 routeIdx, console>>

\* The application passes over a layer that is not for this request.
nextLayer ==
  /\ exchange.state = "running"
  /\ exchange.layer <= Len(app)
  /\ ~ applies(app[exchange.layer], exchange)
  /\ exchange' = [exchange EXCEPT !.layer = @ + 1, !.step = 1]
  /\ UNCHANGED <<startupVars, sessionVars, validationVars, app, sorted, rIdx,
                 routeIdx, console>>

\* A body parser (lines 237-240) reads the body or fails on it.
bodyParser(parsed) ==
  /\ arrivedAt({"text", "json", "raw", "urlencoded"})
  /\ exchange' = IF parsed THEN forwarded(handled("next"))
                 ELSE failed(handled("throws"), "SyntaxError")
  /\ UNCHANGED <<startupVars, sessionVars, validationVars, app, sorted, rIdx,
                 routeIdx, console>>

\* The body parsing error handler (lines 243-247).
invalidBodyResponder ==
  /\ arrivedAt({"invalidBody"})
  /\ exchange' = responded(handled("responds"), 400, "Invalid body!",
                           "INVALID_BODY")
  /\ UNCHANGED <<startupVars, sessionVars, validationVars, app, sorted, rIdx,
                 routeIdx, console>>

\* The route logger (lines 286-290).
requestLog ==
  /\ arrivedAt({"logger"})
  /\ console' = Append(console, [text |-> exchange.method, router |-> "",
                                 about |-> exchange.path])
  /\ exchange' = forwarded(handled("next"))
  /\ UNCHANGED <<startupVars, sessionVars, validationVars, app, sorted, rIdx,
                 routeIdx>>

\* The validation middleware of the route (lines 173-218) passes the
\* request on, rejects it, or ends in an exception.
validationStep(outcome) ==
  /\ arrivedAt({"validation"})
  /\ exchange' =
       CASE outcome = "pass" -> forwarded(handled("next"))
         [] outcome = "fail" ->
              [handled("responds") EXCEPT
                 !.state = "done",
                 !.res = rejectForValidation(@, "Invalid body type!")]
         [] OTHER -> failed(handled("throws"), "TypeError")
  /\ UNCHANGED <<startupVars, sessionVars, validationVars, app, sorted, rIdx,
                 routeIdx, console>>

\* The method of the router (line 298) responds, calls next, or throws.
boundHandler(outcome) ==
  /\ arrivedAt({"bound"})
  /\ exchange' =
       CASE outcome = "responds" -> responded(handled(outcome), 200, "", "")
         [] outcome = "next" -> forwarded(handled(outcome))
         [] OTHER -> failed(handled("throws"), "Error: secret")
  /\ UNCHANGED <<startupVars, sessionVars, validationVars, app, sorted, rIdx,
                 routeIdx, console>>

\* A 404 router that keeps the paths it was asked for among the routers.
notFoundResponderCaching ==
  /\ arrivedAt({"notFound"})
  /\ exchange' = responded(handled("responds"), 404,
                           "Route " \o exchange.path \o " not found!",
                           "ROUTE_NOT_FOUND")
  /\ routers' = put(routers, exchange.path, 0)
  /\ UNCHANGED <<candidates, pc, cursor, services, heap, config, pass, injIdx,
                 trace>>
  /\ UNCHANGED <<sessionVars, validationVars, app, sorted, rIdx, routeIdx,
                 console>>

\* The 404 router (lines 317-321).
notFoundResponder ==
  /\ arrivedAt({"notFound"})
  /\ exchange' = responded(handled("responds"), 404,
                           "Route " \o exchange.path \o " not found!",
                           "ROUTE_NOT_FOUND")
  /\ UNCHANGED <<startupVars, sessionVars, validationVars, app, sorted, rIdx,
                 routeIdx, console>>

\* An error handler that answers with the error it was given.
internalErrorResponderLeaky ==
  /\ arrivedAt({"internalError"})
  /\ console' = Append(console, [text |-> exchange.error, router |-> "",
                                 about |-> ""])
  /\ exchange' = responded(handled("responds"), 500, exchange.error,
                           "UNKNOWN_ERROR")
  /\ UNCHANGED <<startupVars, sessionVars, validationVars, app, sorted, rIdx,
                 routeIdx>>

\* The error handler (lines 324-329).
internalErrorResponder ==
  /\ arrivedAt({"internalError"})
  /\ console' = Append(console, [text |-> exchange.error, router |-> "",
                                 about |-> ""])
  /\ exchange' = responded(handled("responds"), 500,
                           "An internal error has occurred!", "UNKNOWN_ERROR")
  /\ UNCHANGED <<startupVars, sessionVars, validationVars, app, sorted, rIdx,
                 routeIdx>>

ServeNext ==
  \/ InstallNext
  \/ \E method \in Methods, path \in Paths : receive(method, path)
  \/ nextLayer
  \/ \E parsed \in BOOLEAN : bodyParser(parsed)
  \/ invalidBodyResponder
  \/ requestLog
  \/ \E outcome \in {"pass", "fail", "throw"} : validationStep(outcome)
  \/ \E outcome \in {"responds", "next", "throws"} : boundHandler(outcome)
  \/ notFoundResponder
  \/ internalErrorResponder

\* The script from its start, with the routers of RouteCases; the requests
\* come when it has run to its end.
ServeInit ==
  /\ candidates \in RouteCases
  /\ \E v \in {"absent", "false"} :
       heap = merge([port |-> "absent", verboseLogs |-> v, extra |-> "absent"])
  /\ config = 1
  /\ pc = "install"
  /\ cursor = 1
  /\ services = <<>>
  /\ routers = <<>>
  /\ pass = 1
  /\ injIdx = 1
  /\ trace = <<>>
  /\ InstallIdle
  /\ SessionIdle
  /\ ValidationIdle

ServeSpec == ServeInit /\ [][ServeNext]_vars

(***************************************************************************)
(* Properties of a request on its way through the application.             *)
(***************************************************************************)
\* The places in the application of the layers of a kind.
layersOfKind(kind) == {k \in 1..Len(app) : app[k].kind = kind}

\* The installed routes that match the request: its path and its method.
matching ==
  {k \in layersOfKind("route") :
     pathMatches(app[k], exchange.path) /\ methodMatches(app[k], exchange.method)}

\* The runs of handlers of these kinds that ended with this outcome.
runs(kinds, outcome) ==
  {n \in 1..Len(exchange.ran) :
     exchange.ran[n].kind \in kinds /\ exchange.ran[n].outcome = outcome}

\* C22: the not-found responder is mounted once, after every route of every
\* router; it is given a request only after every installed route that
\* matches the request has had it and passed it on; a request never runs
\* off the end of the layers; and a request which no installed route
\* matches and whose body the parsers have read is answered once, with
\* status 404, code ROUTE_NOT_FOUND and the path of the request.
C22_NotFoundAfterRoutes ==
  /\ \A i \in layersOfKind("route"), j \in layersOfKind("notFound") : i < j
  /\ routesDone => Cardinality(layersOfKind("notFound")) = 1
  /\ exchange.state = "running" => exchange.layer <= Len(app)
  /\ \A n \in runs({"notFound"}, "responds") :
       \A k \in matching :
         \E m \in runs({"bound"}, "next") : m < n /\ exchange.ran[m].layer = k
  /\ ( /\ exchange.state = "done"
       /\ matching = {}
       /\ runs({"text", "json", "raw", "urlencoded"}, "throws") = {} )
       => exchange.res = <<[status |-> 404, code |-> "ROUTE_NOT_FOUND",
                            message |-> "Route " \o exchange.path
                                          \o " not found!"]>>

\* A router has a route for GET /p, and a request for GET /p/x, which that
\* route does not match, has been answered with 404.
C22_Witness ==
  /\ exchange.state = "done"
  /\ exchange.method = "get"
  /\ exchange.path = "/p/x"
  /\ \E k \in layersOfKind("route") : app[k].method = "get" /\ app[k].path = "/p"
  /\ matching = {}
  /\ exchange.res[1].status = 404

\* C23: the error responder is mounted last; after a validation step or a
\* bound handler of an installed chain has thrown, no handler runs but the
\* error responder, which the request reaches; the response is then the one
\* response of the request, status 500 with the fixed message, whatever the
\* error was, and the error itself is written to the console only.
C23_ErrorsReachResponder ==
  /\ pc \in {"errorHandler", "listening"} =>
       {k \in 1..Len(app) : app[k].handlers[1].kind = "internalError"}
         = {Len(app)}
  /\ \A n \in runs({"validation", "bound"}, "throws") :
       /\ \A m \in (n + 1)..Len(exchange.ran) :
            exchange.ran[m].kind = "internalError"
       /\ exchange.state = "running" =>
            /\ exchange.layer <= Len(app)
            /\ exchange.res = <<>>
            /\ exchange.error # ""
       /\ exchange.state = "done" =>
            /\ Len(exchange.ran) = n + 1
            /\ exchange.res = <<[status |-> 500, code |-> "UNKNOWN_ERROR",
                                 message |-> "An internal error has occurred!"]>>
            /\ console[Len(console)].text = exchange.error

\* The bound handler of a chain with a request log and a validation step
\* has thrown, a later route that matches the request was passed over, and
\* the request was answered with 500.
C23_Witness ==
  /\ exchange.state = "done"
  /\ \E n \in runs({"bound"}, "throws") :
       /\ exchange.ran[n].step = 3
       /\ \E k \in matching : k > exchange.ran[n].layer
  /\ exchange.res[1].status = 500

(***************************************************************************)
(* Discovery over longer scans: exports without hooks, so that the scan is *)
(* all that differs between the runs.                                      *)
(***************************************************************************)
MaxScanned == 3

Hookless == {c \in Catalog : ~ c.onInjection /\ ~ c.onConfig}

DiscoveryInit ==
  /\ candidates \in SeqsUpTo(Hookless, MaxScanned)
  /\ heap = merge([port |-> "absent", verboseLogs |-> "absent", extra |-> "absent"])
  /\ config = 1
  /\ pc = "install"
  /\ cursor = 1
  /\ services = <<>>
  /\ routers = <<>>
  /\ pass = 1
  /\ injIdx = 1
  /\ trace = <<>>
  /\ InstallIdle
  /\ SessionIdle
  /\ ValidationIdle

DiscoverySpec == DiscoveryInit /\ [][StartupNext]_vars

\* The candidates the scan has processed.
Scanned == 1..(cursor - 1)

\* The map a component of this shape is registered in.
mapOf(shape) == IF shape = "service" THEN services ELSE routers

\* The instance constructed from candidate k is in a map.
holds(k) == \E e \in registered : e.inst = k

\* Candidate k, a component, was processed: its map has its name, with its
\* instance or with one constructed after it.
processed(k) ==
  \E i \in 1..Len(mapOf(candidates[k].shape)) :
    /\ mapOf(candidates[k].shape)[i].name = candidates[k].name
    /\ mapOf(candidates[k].shape)[i].inst >= k

\* The scan is at a candidate of this shape: the next step processes it.
scans(shape) ==
  /\ pc = "install"
  /\ cursor <= Len(candidates)
  /\ candidates[cursor].shape = shape

\* The scan stops at no candidate, the script leaves it at its end only,
\* and every component it went past was processed.
scanGoesOn ==
  /\ (pc = "install" /\ cursor <= Len(candidates)) => ENABLED installModule
  /\ pc # "install" => cursor = Len(candidates) + 1
  /\ \A k \in Scanned :
       candidates[k].shape \in {"service", "router"} => processed(k)

\* C24: processing a candidate whose instance has no __metadata leaves the
\* service map and the router map as they were and moves the scan to the
\* next candidate; its instance is in no map; the candidates after it are
\* processed.
C24_UnmarkedIgnored ==
  /\ [](scanGoesOn /\ \A k \in Scanned :
                        candidates[k].shape = "noMetadata" => ~ holds(k))
  /\ [][scans("noMetadata") =>
          /\ services' = services
          /\ routers' = routers
          /\ cursor' = cursor + 1]_vars

\* A service was registered, an instance without __metadata was passed
\* over, and the router after it was registered.
C24_Witness ==
  /\ Len(candidates) = 3
  /\ candidates[1].shape = "service"
  /\ candidates[2].shape = "noMetadata"
  /\ candidates[3].shape = "router"
  /\ cursor = 4
  /\ holds(1) /\ ~ holds(2) /\ holds(3)

\* The processed candidates of a shape and a name.
found(shape, name) ==
  {k \in Scanned : candidates[k].shape = shape /\ candidates[k].name = name}

Latest(S) == CHOOSE k \in S : \A j \in S : j <= k

\* C25: for each kind and each name, the map of that kind holds under the
\* name the instance of the last component of that kind and name the scan
\* has processed, and nothing when there was none: a component replaces an
\* earlier one of its kind and name, and one of the other kind never does.
C25_LastWriteWins ==
  \A shape \in {"service", "router"}, name \in Names :
    LET entries == {i \in 1..Len(mapOf(shape)) : mapOf(shape)[i].name = name}
    IN  IF found(shape, name) = {} THEN entries = {}
        ELSE /\ Cardinality(entries) = 1
             /\ \A i \in entries :
                  mapOf(shape)[i].inst = Latest(found(shape, name))

\* Two services and a router between them, all of one name: the second
\* service is held, and so is the router.
C25_Witness ==
  /\ Len(candidates) = 3
  /\ \A k \in 1..3 : candidates[k].name = "a"
  /\ candidates[1].shape = "service"
  /\ candidates[2].shape = "router"
  /\ candidates[3].shape = "service"
  /\ cursor = 4
  /\ services = <<[name |-> "a", inst |-> 3]>>
  /\ routers = <<[name |-> "a", inst |-> 2]>>

\* C26: processing a candidate whose constructor throws leaves the maps
\* with everything they held and moves the scan to the next candidate, the
\* script going on; no instance of it is in a map; the candidates after it
\* are processed.
C26_ConstructorThrowCaught ==
  /\ [](scanGoesOn /\ \A k \in Scanned :
                        candidates[k].shape = "throws" => ~ holds(k))
  /\ [][scans("throws") =>
          /\ services' = services
          /\ routers' = routers
          /\ cursor' = cursor + 1
          /\ pc' = "install"]_vars

\* A router was registered, a constructor threw, the service after it was
\* registered, and the script went on to the injection.
C26_Witness ==
  /\ Len(candidates) = 3
  /\ candidates[1].shape = "router"
  /\ candidates[2].shape = "throws"
  /\ candidates[3].shape = "service"
  /\ pc = "injected"
  /\ holds(1) /\ ~ holds(2) /\ holds(3)

(***************************************************************************)
(* Hooks that throw.  injectServices has no try: an exception of a hook    *)
(* leaves injectServices and the script (main.ts lines 117-136, 233-234).  *)
(***************************************************************************)
\* An injectServices that catches what a hook throws and goes on.
hookThrowsCaught ==
  /\ pc = "inject"
  /\ injIdx <= Len(modulesOf(pass))
  /\ LET entry == modulesOf(pass)[injIdx]
         hook == hookOf(moduleOf(entry))
     IN  /\ hook # "none"
         /\ trace' = Append(trace, [hookCall(hook, entry, NoAddr, <<>>)
                                      EXCEPT !.threw = TRUE])
  /\ injIdx' = injIdx + 1
  /\ UNCHANGED <<candidates, pc, cursor, services, routers, heap, config, pass>>
  /\ UNCHANGED outsideStartup

\* One property of modules whose hook throws: the exception ends the
\* script.
hookThrows ==
  /\ pc = "inject"
  /\ injIdx <= Len(modulesOf(pass))
  /\ LET entry == modulesOf(pass)[injIdx]
         hook == hookOf(moduleOf(entry))
         copy == IF hook = "onConfig" THEN cloneDeep(heap, config)
                 ELSE [heap |-> heap, addr |-> NoAddr]
     IN  /\ hook # "none"
         /\ heap' = copy.heap
         /\ trace' = Append(trace,
                        [hookCall(hook, entry, copy.addr,
                                  IF hook = "onConfig"
                                  THEN valueAt(copy.heap, copy.addr) ELSE <<>>)
                           EXCEPT !.threw = TRUE])
  /\ pc' = "crashed"
  /\ UNCHANGED <<candidates, cursor, services, routers, config, pass, injIdx>>
  /\ UNCHANGED outsideStartup

\* Services and routers with and without the hooks; every router has a
\* route to install.
Hooked ==
  {[RouterClass(n, [declared |-> FALSE, value |-> 0],
                [declared |-> TRUE, list |-> <<Route("/p", "run", "get", FALSE)>>])
      EXCEPT !.shape = s, !.onInjection = i, !.onConfig = c] :
     s \in {"service", "router"}, n \in Names, i \in BOOLEAN, c \in BOOLEAN}

FailureInit ==
  /\ candidates \in SeqsUpTo(Hooked, MaxCandidates)
  /\ heap = merge([port |-> "absent", verboseLogs |-> "absent", extra |-> "absent"])
  /\ config = 1
  /\ pc = "install"
  /\ cursor = 1
  /\ services = <<>>
  /\ routers = <<>>
  /\ pass = 1
  /\ injIdx = 1
  /\ trace = <<>>
  /\ InstallIdle
  /\ SessionIdle
  /\ ValidationIdle

FailureNext == InstallNext \/ hookThrows

FailureSpec == FailureInit /\ [][FailureNext]_vars

\* The calls of hooks that ended in an exception.
thrown == {i \in Calls : trace[i].threw}

\* C27: when a call of onInjection or onConfig throws, the script is over:
\* that call is the last call of a hook, nothing was mounted on the
\* application, and no step of the script follows, so that no later hook
\* is called, no route is installed and the server does not listen.
C27_HookThrowStopsStartup ==
  /\ [](\A i \in thrown :
          /\ pc = "crashed"
          /\ i = Len(trace)
          /\ app = <<>>
          /\ ~ ENABLED FailureNext)
  /\ [][thrown = {}]_vars

\* The hook of the first of two components threw: the hook of the second
\* was not called, and the route of a router was not installed.
C27_Witness ==
  /\ thrown = {1}
  /\ Len(trace) = 1
  /\ \E e \in registered :
       e.inst # trace[1].inst /\ hookOf(moduleOf(e)) # "none"
  /\ routers # <<>>
  /\ routeLayers = <<>>

(***************************************************************************)
(* More properties of the session middleware.                              *)
(***************************************************************************)
\* The 'created' handler of the request returned a promise that is not
\* settled.
stalled(r) == r \in Arrived /\ reqs[r].promise = "pending"

\* C28: while the promise of a request's 'created' handler is unsettled,
\* next of that request is not called and no callback of its chain can run;
\* every other request goes on as if it were alone: one that presents an
\* identifier has had its next called, one whose handler has settled has
\* its next called or the callback that leads there ready to run, and a
\* further request is accepted; and no step of the middleware or of its
\* callbacks changes the handler table, the services, the routers or the
\* configuration.
C28_StallIsLocal ==
  /\ [](\A r \in Arrived :
          stalled(r) =>
            /\ reqs[r].nextCalls = 0
            /\ callbacksDone(r)
            /\ \A q \in Arrived \ {r} :
                 /\ presentsId(reqs[q]) => reqs[q].nextCalls = 1
                 /\ reqs[q].promise \in {"fulfilled", "rejected"} =>
                      \/ reqs[q].nextCalls = 1
                      \/ ENABLED onRejected(q)
                      \/ ENABLED onFinally(q)
            /\ Len(reqs) < MaxRequests =>
                 \A jars \in Jars, draws \in Draws :
                   ENABLED middleware(jars.cookies, jars.signedCookies,
                                      draws, "returns"))
  /\ [][reqs' # reqs =>
          UNCHANGED <<handlers, services, routers, heap, config>>]_vars

\* The handler of the first request returned a promise that is still
\* unsettled; a second request without an identifier came after it, its
\* handler returned, and its next was called.
C28_Witness ==
  /\ Len(reqs) = 2
  /\ stalled(1)
  /\ reqs[1].nextCalls = 0
  /\ ~ presentsId(reqs[2])
  /\ reqs[2].handler \in Handlers
  /\ reqs[2].chain = "finished"
  /\ reqs[2].nextCalls = 1

\* C30 as stated: a request that presents no identifier while no 'created'
\* handler is assigned gets a generated identifier in the response cookie,
\* has its next called at most once and, when its callbacks have run,
\* exactly once; no handler is invoked for it and no failure is logged.
C30_NoHandlerContinuesQuietly ==
  \A r \in Arrived :
    (~ presentsId(reqs[r]) /\ reqs[r].handler = NoHandler) =>
      /\ reqs[r].generated = 1
      /\ reqs[r].cookie.set
      /\ reqs[r].cookie.value = reqs[r].sessionId
      /\ reqs[r].created = <<>>
      /\ reqs[r].nextCalls <= 1
      /\ callbacksDone(r) => reqs[r].nextCalls = 1
      /\ reqs[r].errors = 0

(***************************************************************************)
(* The steps taken for requests, together: those of the handlers main.ts   *)
(* mounts, in a process that ran the script, and those of a session        *)
(* manager, which session.ts constructs apart from the script.             *)
(***************************************************************************)
RuntimeInit ==
  \/ ServeInit /\ Len(candidates) = 1
  \/ SessionInit

RuntimeNext ==
  \/ ServeNext
  \/ pc = "idle" /\ on("created", "h1")
  \/ /\ pc = "idle"
     /\ \E jars \in Jars, outcome \in Outcomes :
          middleware(jars.cookies, jars.signedCookies,
                     CHOOSE draws \in Draws : TRUE, outcome)
  \/ pc = "idle" /\ \E r \in Requests, how \in {"fulfilled", "rejected"} :
                      settle(r, how)
  \/ pc = "idle" /\ \E r \in Requests : onRejected(r)
  \/ pc = "idle" /\ \E r \in Requests : onFinally(r)
  \/ pc = "idle" /\ \E value \in ClaimValues : setClaim("s1", "k1", value)
  \/ pc = "idle" /\ getClaim("s1", "k1")

RuntimeSpec == RuntimeInit /\ [][RuntimeNext]_vars

\* What startup builds: the services, the routers and their sorted array,
\* and the configuration with the objects it refers to.
built == <<services, routers, sorted, heap, config>>

\* A step taken for a request: a handler mounted on the application runs or
\* passes the request on, the session middleware or a callback of its
\* promise runs, or a claim is set or read.
requestStep ==
  \/ exchange' # exchange
  \/ reqs' # reqs
  \/ lastOp' # lastOp /\ lastOp'.op \in {"setClaim", "getClaim"}

\* C29: the services, the routers and the configuration change only in
\* steps of the script, in discovery, injection and the sort of the
\* routers; no step taken for a request changes any of them, and once the
\* server listens nothing does.
C29_WrittenOnlyAtStartup ==
  /\ [][requestStep => UNCHANGED built]_vars
  /\ [][built' # built => pc \in {"install", "inject", "parsers"}]_vars
  /\ [][pc = "listening" => UNCHANGED built]_vars

\* The script registered and sorted a router; a request went through the
\* request log and the validation step of its route, the handler threw, and
\* the error responder answered.
C29_Witness ==
  /\ pc = "listening"
  /\ Len(routers) = 1
  /\ sorted = routers
  /\ exchange.state = "done"
  /\ runs({"logger"}, "next") # {}
  /\ runs({"validation"}, "next") # {}
  /\ runs({"internalError"}, "responds") # {}

(***************************************************************************)
(* The jar the session middleware reads, and the cookie it writes.         *)
(***************************************************************************)
\* The sessionId cookie of the jar the configuration does not select.
otherJar(req) == IF signed THEN req.cookies ELSE req.signedCookies

\* C31: the identifier of a request is either the one its selected jar
\* holds (the signed cookies when signing is on, the unsigned ones when it
\* is off) or a generated one; an identifier that only the other jar holds
\* is never taken: a new one is generated and written to the response; and
\* a cookie is written exactly for a generated identifier, signed exactly
\* when signing is on.
C31_SelectedJarOnly ==
  \A r \in Arrived :
    LET req == reqs[r] IN
    /\ req.generated = 0 =>
         /\ presentsId(req)
         /\ req.sessionId = presented(req).value
    /\ ~ presentsId(req) =>
         /\ req.generated = 1
         /\ req.sessionId = req.cookie.value
         /\ truthy(otherJar(req)) => req.sessionId # otherJar(req).value
    /\ req.cookie.set <=> req.generated = 1
    /\ req.cookie.set => (req.cookie.signed <=> signed)

\* Signing is on and a request came with an identifier among its unsigned
\* cookies only: a new identifier was generated and written to a signed
\* cookie.
C31_Witness ==
  /\ signed
  /\ \E r \in Arrived :
       /\ reqs[r].cookies = String(idA)
       /\ reqs[r].signedCookies = Absent
       /\ reqs[r].generated = 1
       /\ reqs[r].sessionId # idA
       /\ reqs[r].cookie = [set |-> TRUE, value |-> reqs[r].sessionId,
                            signed |-> TRUE]

====
